---- MODULE Spec2Model ----
(***************************************************************************)
(* A model of the real-time pipeline of the live-subway backend:           *)
(*   - the per-feed circuit breaker (backend/src/feeds/circuit-breaker.ts) *)
(*     driven by the multi-feed poller (backend/src/feeds/feed-poller.ts)  *)
(*     over the in-memory train cache (cache/train-cache.ts);              *)
(*   - the single-upstream Transiter poller                                *)
(*     (backend/src/transiter/poller.ts) with its readers in               *)
(*     routes/stream.ts and routes/trains.ts.                              *)
(*                                                                         *)
(* Time is the value of Date.now() in milliseconds.  Latitudes and         *)
(* longitudes are integers in units of 1e-6 degree.  Train and vehicle ids *)
(* are naturals ordered as String.localeCompare orders the id strings.     *)
(***************************************************************************)
EXTENDS Integers, Sequences, FiniteSets, TLC

(***************************************************************************)
(* Program constants                                                       *)
(***************************************************************************)
failureThreshold == 3
recoveryTimeoutMs == 60000
POLL_INTERVAL_MS == 15000
STALE_THRESHOLD_MS == 300000
POSITION_TRANSITION_DURATION_MS == 300
MAX_HEALTH_ATTEMPTS == 30
BEARING_TRANSITION_DURATION_MS == 300
\* useTrainStream.ts
INITIAL_RETRY_DELAY == 1000
MAX_RETRY_DELAY == 30000
\* HeartbeatIndicator.tsx: STALE_THRESHOLD_MS and the period of its check
INDICATOR_STALE_THRESHOLD_MS == 30000
StaleCheckMs == 5000
\* useNearbyArrivals.ts: IDEAL_WINDOW_MIN and IDEAL_WINDOW_MAX (minutes) in ms
IDEAL_WINDOW_MIN_MS == 30000
IDEAL_WINDOW_MAX_MS == 180000
\* useSpatialIndex.ts: RADIUS_KM, in decimetres
RADIUS_DM == 8047
\* useWalkingTime.ts: WALKING_SPEED_KMH = 3 * 1.60934 km/h, in mm per minute, and
\* STATION_ENTRY_BUFFER_MIN
WALKING_SPEED_MM_PER_MIN == 80467
STATION_ENTRY_BUFFER_MIN == 2
\* the step of the arrivals query's clock
StopsClockStep == 55000
\* the clock of the target position: it starts 5 s before the hop and steps
\* by 1.25 s
InterpStart == 995000
InterpClockStep == 1250

(***************************************************************************)
(* Bounds of the model                                                     *)
(***************************************************************************)
\* the clock of the one-feed poller runs over 0 .. MaxTicks * FeedClockStep
MaxTicks == 5
\* the clock of the two-feed poller runs over 0 .. MaxTicksFeeds * FeedClockStep
MaxTicksFeeds == 2
\* no breaker records more than MaxFailures failures without a success
MaxFailures == 4
\* at most MaxInFlight poll cycles of the one-feed poller are in flight at once
MaxInFlight == 2
\* at most MaxInFlightFeeds poll cycles of the two-feed poller are in flight at once
MaxInFlightFeeds == 1
\* the clock of the Transiter poller makes at most MaxTicksTransiter steps
MaxTicksTransiter == 3
\* at most MaxInFlightTransiter poll() calls of the Transiter poller are in flight at once
MaxInFlightTransiter == 2
\* the upstream lists at most MaxVehicles vehicles
MaxVehicles == 2
\* at most MaxClientsTransiter stream clients are connected to the Transiter poller at once
MaxClientsTransiter == 1
\* the stream: at most MaxClients clients are connected at once, at most
\* MaxInFlightStream poll() calls are in flight at once, the clock makes at most
\* MaxTicksStream steps
MaxClients == 2
MaxInFlightStream == 1
MaxTicksStream == 2
\* the stream client meets at most MaxErrors errors in a row without an open, and
\* its clock makes at most MaxTicksClient steps
MaxErrors == 8
MaxTicksClient == 16
\* the arrivals panel sends at most MaxRequests requests
MaxRequests == 5
\* the upstream lists at most MaxStopTimes stop times for a stop, and the clock
\* of the arrivals query makes at most MaxTicksStops steps
MaxStopTimes == 2
MaxTicksStops == 2
\* the clock of the target position makes at most MaxTicksInterp steps
MaxTicksInterp == 20
\* a transition's progress is a multiple of 1 / ProgressSteps
ProgressSteps == 4
\* a direction of a station lists at most MaxArrivals arrivals
MaxArrivals == 3
\* the station list holds at most MaxStations stations
MaxStations == 3
\* the clock of the snapshot's poller makes at most MaxTicksSnapshot steps
MaxTicksSnapshot == 2
\* the clock of the animation makes at most MaxTicksAnim steps
MaxTicksAnim == 8
\* the clock of the startup makes at most MaxTicksStartup steps
MaxTicksStartup == 1
\* the clock of the animation of two trains makes at most MaxTicksLive steps
MaxTicksLive == 3
\* the clock of the pulse makes at most MaxTicksPulse steps, more than a period
MaxTicksPulse == 22
\* the clock of the turning train makes at most MaxTicksTurn steps
MaxTicksTurn == 6
\* the bounds of the nearby-arrivals hook: loads started, requests sent, clock steps
MaxLoads == 2
MaxRequestsNearby == 3
MaxTicksNearby == 3
\* the vehicles of a feed message
MaxEntities == 2

VARIABLES
    now,                \* Date.now()
    \* ---- multi-feed poller (feed-poller.ts, circuit-breaker.ts, train-cache.ts)
    circuitBreakers,    \* feed id -> CircuitBreaker {state, failureCount, lastFailureTime}
    trainCache,         \* the TrainCache singleton {trains, feedStatuses, lastBroadcastHash}
    pollInterval,       \* TRUE iff the setInterval handle is set
    toStart,            \* feeds whose fetchFeed the running pollAllFeeds has still to call
    startingCycle,      \* id of the cycle whose fetchFeed calls are being made
    attempts,           \* fetches awaiting their response: {feed, cycle}
    onDataChangedFired, \* whether the last finished cycle invoked onDataChanged
    \* ---- observations of the feed poller (history)
    consecutiveFailures,\* feed id -> recordFailure calls since the last recordSuccess
    lastFailureAt,      \* feed id -> Date.now() at the last recordFailure call
    halfOpenGrants,     \* feed id -> isOpen queries answered false on a non-closed breaker
                        \*            since the last recordSuccess / recordFailure
    lastFetch,          \* what the fetchFeed call that finished last did, and on which breaker
    \* ---- Transiter poller (transiter/poller.ts, transiter/client.ts)
    currentTrains,      \* Train[]: the current snapshot
    lastUpdateHash,     \* hash of the snapshot that was broadcast last
    lastPollTime,       \* `now` of the poll() that installed the snapshot
    isTransiterHealthy, \* outcome of the last poll()
    transiterPollInterval, \* TRUE iff poller.ts's setInterval handle is set
    timerDue,           \* TRUE iff the interval has elapsed and its callback has not run yet
    stopCache,          \* client.ts stopCache: the stop ids whose coordinates are cached
    tripCache,          \* client.ts tripCache: trip id -> {exists, data, timestamp}
    cycles,             \* poll() calls awaiting the network, in the order they began
    clients,            \* stream.ts clients: the connected responses, in insertion order
    \* ---- observations of the Transiter poller (history)
    lastDone,           \* the poll() call that returned last: its inputs and what it did
    published,          \* the message the last step wrote, and to whom
    \* ---- stream client (useTrainStream.ts, train-store.ts, HeartbeatIndicator.tsx)
    retryDelay,         \* retryDelayRef.current
    eventSource,        \* state of eventSourceRef.current: connecting, open, closed
    retryTimeout,       \* delay of the pending reconnection timer, NoTime if none
    store,              \* the train store {trains, feedStatuses, lastUpdate, isConnected, isConnecting}
    cachedTrains,       \* fetchCachedTrains: timer, fetching, done
    isStale,            \* HeartbeatIndicator's isStale
    staleInterval,      \* when HeartbeatIndicator's interval fires next, NoTime if not set
    \* ---- observations of the stream client (history)
    scheduled,          \* the delays of the reconnections scheduled since the last open
    lastEvent,          \* the event the last step handled, and the retry delay it found
    \* ---- arrivals panel (useStopArrivals.ts, stop-store.ts)
    stopStore,          \* the stop store {selectedStopId, stopData, isLoading, error, pollingInterval}
    abortController,    \* abortControllerRef.current: the request it belongs to, 0 if null
    fetches,           \* fetchArrivals calls awaiting their response: {id, stopId, aborted}
    issued,             \* number of fetches sent
    \* ---- observations of the arrivals panel (history)
    lastWriter,         \* the request whose continuation ran in the last step, and what it did
    \* ---- arrivals query (routes/stops.ts, transiter/stops.ts)
    stopsQuery,         \* the last query: the stop asked for and what the upstream did
    stopsReply,         \* the route's answer to it: {status, error, body}
    \* ---- target position (position-calculator.ts, useInterpolatedTrains.ts)
    interpTrain,        \* the train the client holds: <<>> or <<Train>>
    interpServerAt,     \* Date.now() when the server converted it, NoTime if it did not
    clientTarget,       \* what getTargetPosition gave for it in the last frame, and when
    fnCall,             \* the last call of a pure function: its name and its arguments
    fnResult,           \* what the call returned
    indexRef,           \* useSpatialIndex.ts: <<>> while the index is not loaded, else <<its stations>>
    stationsLoad,       \* the fetch of the station list: "pending", "done" or "failed"
    animationStates,    \* useInterpolatedTrains.ts: train id -> TrainAnimationState
    interpolatedTrains, \* the positions calculatePositions() rendered last
    lastFrame,          \* what the last call of calculatePositions() started from
    startup,            \* startPolling(): "idle", "waiting" for the health checks and the preload, or "started"
    healthAttempts,     \* the attempts of the health check loop
    healthCheckResult,  \* "pending", "healthy" or "gaveUp"
    preload,            \* preloadStopCoordinates(): "idle", "loading" or "done"
    nextId,             \* preloadStopCoordinates(): the page to request next, "" for null
    userLocation,       \* useNearbyArrivals.ts: the user location of the UI store, "" for null
    debounceTimerRef,   \* when the pending debounce timer is due, NoTime if none is pending
    cacheRef,           \* cacheRef.current: station id -> {exists, data, timestamp}
    nearbyStations,     \* the state `stations`: the load that set it and its entry per station
    nearbyLoads,        \* the loadNearbyStations() calls awaiting Promise.all
    nearbyRequests,     \* the arrival requests awaiting their response: {id, stopId, load, startedAt}
    nearbyIssued,       \* whether the hook is mounted, loads started, requests sent, clock ticks
    requestedAt,        \* station id -> when its last request that has not failed was sent, NoTime if none
    nearbyLog           \* what the last step did: the fetchStationArrivals() calls made and the response handled

feedVars == <<circuitBreakers, trainCache, pollInterval, toStart,
              startingCycle, attempts, onDataChangedFired,
              consecutiveFailures, lastFailureAt, halfOpenGrants, lastFetch>>

transiterVars == <<currentTrains, lastUpdateHash, lastPollTime, isTransiterHealthy,
                   transiterPollInterval, timerDue, stopCache, tripCache, cycles,
                   clients, lastDone, published>>

clientVars == <<retryDelay, eventSource, retryTimeout, store, cachedTrains, isStale,
                staleInterval, scheduled, lastEvent>>

arrivalsVars == <<stopStore, abortController, fetches, issued, lastWriter>>

stopsVars == <<stopsQuery, stopsReply>>

interpVars == <<interpTrain, interpServerAt, clientTarget>>

fnVars == <<fnCall, fnResult>>

spatialVars == <<indexRef, stationsLoad>>

animVars == <<animationStates, interpolatedTrains, lastFrame>>

startupVars == <<startup, healthAttempts, healthCheckResult, preload, nextId>>

nearbyVars == <<userLocation, debounceTimerRef, cacheRef, nearbyStations, nearbyLoads, nearbyRequests, nearbyIssued, requestedAt, nearbyLog>>

notFeed == <<transiterVars, clientVars, arrivalsVars, stopsVars, interpVars, fnVars, spatialVars, animVars, startupVars, nearbyVars>>
notTransiter == <<feedVars, clientVars, arrivalsVars, stopsVars, interpVars, fnVars, spatialVars, animVars, startupVars, nearbyVars>>
notClient == <<feedVars, transiterVars, arrivalsVars, stopsVars, interpVars, fnVars, spatialVars, animVars, startupVars, nearbyVars>>
notArrivals == <<feedVars, transiterVars, clientVars, stopsVars, interpVars, fnVars, spatialVars, animVars, startupVars, nearbyVars>>
notStops == <<feedVars, transiterVars, clientVars, arrivalsVars, interpVars, fnVars, spatialVars, animVars, startupVars, nearbyVars>>
notInterp == <<feedVars, transiterVars, clientVars, arrivalsVars, stopsVars, fnVars, spatialVars, animVars, startupVars, nearbyVars>>
notFn == <<feedVars, transiterVars, clientVars, arrivalsVars, stopsVars, interpVars, spatialVars, animVars, startupVars, nearbyVars>>
notSpatial == <<feedVars, transiterVars, clientVars, arrivalsVars, stopsVars, interpVars, fnVars, animVars, startupVars, nearbyVars>>
notSpatialFn == <<feedVars, transiterVars, clientVars, arrivalsVars, stopsVars, interpVars, animVars, startupVars, nearbyVars>>
notAnimInterp == <<feedVars, transiterVars, clientVars, arrivalsVars, stopsVars, fnVars, spatialVars, startupVars, nearbyVars>>
notAnim == <<feedVars, transiterVars, clientVars, arrivalsVars, stopsVars, interpVars, fnVars, spatialVars, startupVars, nearbyVars>>
notStartup == <<feedVars, transiterVars, clientVars, arrivalsVars, stopsVars, interpVars, fnVars, spatialVars, animVars, nearbyVars>>
notStartupTransiter == <<feedVars, clientVars, arrivalsVars, stopsVars, interpVars, fnVars, spatialVars, animVars, nearbyVars>>
notNearby == <<feedVars, transiterVars, clientVars, arrivalsVars, stopsVars, interpVars, fnVars, spatialVars, animVars, startupVars>>

vars == <<now, feedVars, transiterVars, clientVars, arrivalsVars, stopsVars, interpVars, fnVars, spatialVars, animVars, startupVars, nearbyVars>>

(***************************************************************************)
(* circuit-breaker.ts                                                      *)
(***************************************************************************)
CircuitBreaker == [state |-> "CLOSED", failureCount |-> 0, lastFailureTime |-> 0]

\* get isOpen(): the answer and the breaker after the query
isOpen(b, t) ==
    IF b.state = "CLOSED"
    THEN [result |-> FALSE, breaker |-> b]
    ELSE IF b.state = "OPEN" /\ t - b.lastFailureTime >= recoveryTimeoutMs
         THEN [result |-> FALSE, breaker |-> [b EXCEPT !.state = "HALF_OPEN"]]
         ELSE [result |-> b.state = "OPEN", breaker |-> b]

\* get currentState(): triggers the state check, then reads the state
currentState(b, t) ==
    LET q == isOpen(b, t)
    IN  [result |-> q.breaker.state, breaker |-> q.breaker]

recordSuccess_keepCount(b) ==
    [b EXCEPT !.state = "CLOSED"]

recordSuccess(b) ==
    [b EXCEPT !.state = "CLOSED", !.failureCount = 0]

recordFailure_gt(b, t) ==
    LET c == b.failureCount + 1
    IN  [state |-> IF c > failureThreshold THEN "OPEN" ELSE b.state,
         failureCount |-> c,
         lastFailureTime |-> t]

recordFailure_keepTime(b, t) ==
    LET c == b.failureCount + 1
    IN  [state |-> IF c >= failureThreshold THEN "OPEN" ELSE b.state,
         failureCount |-> c,
         lastFailureTime |-> b.lastFailureTime]

recordFailure(b, t) ==
    LET c == b.failureCount + 1
    IN  [state |-> IF c >= failureThreshold THEN "OPEN" ELSE b.state,
         failureCount |-> c,
         lastFailureTime |-> t]

(***************************************************************************)
(* mta-feeds.ts: two of the eight feeds                                    *)
(***************************************************************************)
MTA_FEEDS == <<"ace", "g">>

FeedIds == {MTA_FEEDS[i] : i \in 1..Len(MTA_FEEDS)}

\* the line a modelled feed reports, and the id of the vehicle it reports
FeedLine(feedId) == IF feedId = "ace" THEN "A" ELSE "G"
FeedTrainId(feedId) == IF feedId = "ace" THEN 1 ELSE 2

(***************************************************************************)
(* train-cache.ts                                                          *)
(***************************************************************************)
NoFeedStatus == [exists |-> FALSE, lastUpdate |-> 0, isHealthy |-> FALSE, errorCount |-> 0]

TrainCache ==
    [trains |-> {},
     feedStatuses |-> [f \in FeedIds |-> NoFeedStatus],
     lastBroadcastHash |-> <<>>]

trainBelongsToFeed(train, feedId) ==
    LET feedLines == [ace |-> {"A", "C", "E"}, g |-> {"G"}]
    IN  train.line \in feedLines[feedId]

\* Map.set(train.id, train) on the set of the map's values
MapSet(S, train) == {x \in S : x.id # train.id} \cup {train}

RECURSIVE MapSetAll(_, _)
MapSetAll(S, list) ==
    IF list = <<>> THEN S ELSE MapSetAll(MapSet(S, Head(list)), Tail(list))

updateFromFeed(cache, feedId, trains, timestamp) ==
    LET newTrainIds == {trains[i].id : i \in 1..Len(trains)}
        kept == {x \in cache.trains :
                    ~(x.id \notin newTrainIds /\ trainBelongsToFeed(x, feedId))}
    IN  [cache EXCEPT
            !.trains = MapSetAll(kept, trains),
            !.feedStatuses[feedId] =
                [exists |-> TRUE, lastUpdate |-> timestamp,
                 isHealthy |-> TRUE, errorCount |-> 0]]

markFeedUnhealthy_all(cache, feedId, errorCount) ==
    [cache EXCEPT
        !.feedStatuses = [f \in FeedIds |->
            [exists |-> TRUE,
             lastUpdate |-> IF cache.feedStatuses[f].exists
                            THEN cache.feedStatuses[f].lastUpdate ELSE 0,
             isHealthy |-> FALSE,
             errorCount |-> errorCount]]]

markFeedUnhealthy(cache, feedId, errorCount) ==
    [cache EXCEPT
        !.feedStatuses[feedId] =
            [exists |-> TRUE,
             lastUpdate |-> IF cache.feedStatuses[feedId].exists
                            THEN cache.feedStatuses[feedId].lastUpdate ELSE 0,
             isHealthy |-> FALSE,
             errorCount |-> errorCount]]

\* TrainCache.getTrains(): the trains not older than the stale threshold
cacheGetTrains(cache, t) ==
    {x \in cache.trains : t - x.timestamp <= STALE_THRESHOLD_MS}

\* Number.toFixed(5) of a coordinate, in units of 1e-5 degree
toFixed5(x) == IF x >= 0 THEN (x + 5) \div 10 ELSE -((5 - x) \div 10)

\* a set of trains with distinct ids, sorted by id
RECURSIVE SortedById(_)
SortedById(S) ==
    IF S = {} THEN <<>>
    ELSE LET m == CHOOSE x \in S : \A y \in S : x.id <= y.id
         IN  <<m>> \o SortedById(S \ {m})

HashPart(train) == <<train.id, toFixed5(train.latitude), toFixed5(train.longitude)>>

cacheComputeHash(cache, t) ==
    LET sorted == SortedById(cacheGetTrains(cache, t))
    IN  [i \in 1..Len(sorted) |-> HashPart(sorted[i])]

hasChangedSinceLastBroadcast(cache, t) ==
    LET currentHash == cacheComputeHash(cache, t)
    IN  IF currentHash # cache.lastBroadcastHash
        THEN [result |-> TRUE, cache |-> [cache EXCEPT !.lastBroadcastHash = currentHash]]
        ELSE [result |-> FALSE, cache |-> cache]

(***************************************************************************)
(* feed-parser.ts: the results parseFeed can give for a feed               *)
(***************************************************************************)
\* header.timestamp of a feed message, in seconds
FeedTimestamps == {1}

ParsedTrains(feedId, t) ==
    {[id |-> FeedTrainId(feedId), line |-> FeedLine(feedId), latitude |-> 40700000,
      longitude |-> -74000000, timestamp |-> t]}

\* no vehicle, or one vehicle
ParsedFeedResults(feedId, t) == {<<>>} \cup {<<x>> : x \in ParsedTrains(feedId, t)}

(***************************************************************************)
(* feed-poller.ts                                                          *)
(***************************************************************************)
NoFetch == [kind |-> "none", feed |-> "ace", prevState |-> "CLOSED",
            prevCount |-> 0, network |-> 0, successes |-> 0, failures |-> 0,
            unhealthy |-> FALSE]

\* the module's state once loaded, with the feeds of `feeds` configured
FeedInit(feeds) ==
    /\ circuitBreakers = [f \in feeds |-> CircuitBreaker]
    /\ trainCache = TrainCache
    /\ pollInterval = FALSE
    /\ toStart = <<>>
    /\ startingCycle = 0
    /\ attempts = {}
    /\ onDataChangedFired = FALSE
    /\ consecutiveFailures = [f \in feeds |-> 0]
    /\ lastFailureAt = [f \in feeds |-> 0]
    /\ halfOpenGrants = [f \in feeds |-> 0]
    /\ lastFetch = NoFetch

CyclesInFlight == {a.cycle : a \in attempts}

\* pollAllFeeds after Promise.all: runs once every fetchFeed of the cycle has returned
PollAllFeedsEnd(done, cache) ==
    IF done
    THEN LET r == hasChangedSinceLastBroadcast(cache, now)
         IN  /\ trainCache' = r.cache
             /\ onDataChangedFired' = r.result
    ELSE /\ trainCache' = cache
         /\ onDataChangedFired' = onDataChangedFired

\* pollAllFeeds up to its first fetchFeed call
PollAllFeedsBegin(maxInFlight) ==
    /\ toStart = <<>>
    /\ Cardinality(CyclesInFlight) < maxInFlight
    /\ toStart' = SelectSeq(MTA_FEEDS, LAMBDA f : f \in DOMAIN circuitBreakers)
    /\ startingCycle' = CHOOSE c \in 1..maxInFlight : c \notin CyclesInFlight

\* startPolling(): the initial poll and the interval
StartPolling(maxInFlight) ==
    /\ ~pollInterval
    /\ PollAllFeedsBegin(maxInFlight)
    /\ pollInterval' = TRUE
    /\ UNCHANGED <<now, circuitBreakers, trainCache, attempts,
                   onDataChangedFired, consecutiveFailures, lastFailureAt,
                   halfOpenGrants, lastFetch>>

\* the interval timer's callback
PollTimer(maxInFlight) ==
    /\ pollInterval
    /\ PollAllFeedsBegin(maxInFlight)
    /\ UNCHANGED <<now, circuitBreakers, trainCache, pollInterval, attempts,
                   onDataChangedFired, consecutiveFailures, lastFailureAt,
                   halfOpenGrants, lastFetch>>

\* stopPolling(): fetches already under way go on
StopPolling ==
    /\ pollInterval
    /\ toStart = <<>>
    /\ pollInterval' = FALSE
    /\ UNCHANGED <<now, circuitBreakers, trainCache, toStart, startingCycle, attempts,
                   onDataChangedFired, consecutiveFailures, lastFailureAt,
                   halfOpenGrants, lastFetch>>

\* the count of isOpen answers "false" given by a breaker that is not closed
Grant(f, before, q) ==
    IF before.state # "CLOSED" /\ ~q.result
    THEN IF halfOpenGrants[f] < 2 THEN halfOpenGrants[f] + 1 ELSE halfOpenGrants[f]
    ELSE halfOpenGrants[f]

\* a record call starts the count anew; the log line after it reads currentState
GrantAfterRecord(b) ==
    IF b.state # "CLOSED" /\ ~isOpen(b, now).result THEN 1 ELSE 0

Fetched(f, kind, network, successes, failures, cache) ==
    [kind |-> kind, feed |-> f,
     prevState |-> circuitBreakers[f].state,
     prevCount |-> circuitBreakers[f].failureCount,
     network |-> network, successes |-> successes, failures |-> failures,
     unhealthy |-> cache.feedStatuses[f].exists /\ ~cache.feedStatuses[f].isHealthy]

\* fetchFeed(feed) up to its first await: the isOpen query, then the skip or the fetch
FetchFeedBegin ==
    /\ toStart # <<>>
    /\ LET f == Head(toStart)
           q == isOpen(circuitBreakers[f], now)
           last == Len(toStart) = 1
       IN  /\ circuitBreakers' = [circuitBreakers EXCEPT ![f] = q.breaker]
           /\ halfOpenGrants' = [halfOpenGrants EXCEPT ![f] = Grant(f, circuitBreakers[f], q)]
           /\ toStart' = Tail(toStart)
           /\ IF q.result
              THEN /\ attempts' = attempts
                   /\ lastFetch' = Fetched(f, "skip", 0, 0, 0, trainCache)
              ELSE /\ attempts' = attempts \cup {[feed |-> f, cycle |-> startingCycle]}
                   /\ lastFetch' = lastFetch
           /\ PollAllFeedsEnd(last /\ \A a \in attempts' : a.cycle # startingCycle,
                              trainCache)
    /\ UNCHANGED <<now, pollInterval, startingCycle, consecutiveFailures, lastFailureAt>>

\* fetchFeed after a response that parses: the try block
FetchFeedSuccess(a, trains, timestamp) ==
    /\ toStart = <<>>
    /\ a \in attempts
    /\ LET f == a.feed
           cache == updateFromFeed(trainCache, f, trains, timestamp)
           b == recordSuccess(circuitBreakers[f])
           logged == currentState(b, now)
       IN  /\ circuitBreakers' = [circuitBreakers EXCEPT ![f] = logged.breaker]
           /\ consecutiveFailures' = [consecutiveFailures EXCEPT ![f] = 0]
           /\ halfOpenGrants' = [halfOpenGrants EXCEPT ![f] = GrantAfterRecord(b)]
           /\ lastFetch' = Fetched(f, "success", 1, 1, 0, cache)
           /\ attempts' = attempts \ {a}
           /\ PollAllFeedsEnd(\A x \in attempts' : x.cycle # a.cycle, cache)
    /\ UNCHANGED <<now, pollInterval, toStart, startingCycle, lastFailureAt>>

FetchFeedFailure_noRecord(a) ==
    /\ toStart = <<>>
    /\ a \in attempts
    /\ LET f == a.feed
           cache == markFeedUnhealthy(trainCache, f, circuitBreakers[f].failureCount)
       IN  /\ lastFetch' = Fetched(f, "failure", 1, 0, 0, cache)
           /\ attempts' = attempts \ {a}
           /\ PollAllFeedsEnd(\A x \in attempts' : x.cycle # a.cycle, cache)
    /\ UNCHANGED <<now, circuitBreakers, pollInterval, toStart, startingCycle,
                   consecutiveFailures, lastFailureAt, halfOpenGrants>>

\* fetchFeed after a network error, a non-2xx status or a parse error: the catch block
FetchFeedFailure(a) ==
    /\ toStart = <<>>
    /\ a \in attempts
    /\ circuitBreakers[a.feed].failureCount < MaxFailures
    /\ LET f == a.feed
           b == recordFailure(circuitBreakers[f], now)
           cache == markFeedUnhealthy(trainCache, f, b.failureCount)
           logged == currentState(b, now)
       IN  /\ circuitBreakers' = [circuitBreakers EXCEPT ![f] = logged.breaker]
           /\ consecutiveFailures' = [consecutiveFailures EXCEPT ![f] = @ + 1]
           /\ lastFailureAt' = [lastFailureAt EXCEPT ![f] = now]
           /\ halfOpenGrants' = [halfOpenGrants EXCEPT ![f] = GrantAfterRecord(b)]
           /\ lastFetch' = Fetched(f, "failure", 1, 0, 1, cache)
           /\ attempts' = attempts \ {a}
           /\ PollAllFeedsEnd(\A x \in attempts' : x.cycle # a.cycle, cache)
    /\ UNCHANGED <<now, pollInterval, toStart, startingCycle>>

\* getCircuitBreakerStatus(): reads currentState of every breaker
GetCircuitBreakerStatus ==
    /\ toStart = <<>>
    /\ circuitBreakers' = [f \in DOMAIN circuitBreakers |->
            currentState(circuitBreakers[f], now).breaker]
    /\ halfOpenGrants' = [f \in DOMAIN circuitBreakers |->
            Grant(f, circuitBreakers[f], isOpen(circuitBreakers[f], now))]
    /\ UNCHANGED <<now, trainCache, pollInterval, toStart, startingCycle,
                   attempts, onDataChangedFired, consecutiveFailures, lastFailureAt,
                   lastFetch>>

(***************************************************************************)
(* transiter/client.ts: the upstream's data and the client's caches        *)
(***************************************************************************)
\* an absent optional time (updatedAt, arrival.time, departure.time)
NoTime == -1

TRIP_CACHE_TTL == 30000

\* the stops of the upstream: two stops on one meridian, B north of A
StopCoordinates ==
    [A |-> [lat |-> 40700000, lon |-> -74000000],
     B |-> [lat |-> 40704000, lon |-> -74000000]]

\* what preloadStopCoordinates() adds to stopCache: every page, or the pages
\* up to the first one that fails
PreloadResults == {{"A", "B"}, {"B"}}

\* the modelled stop ids that end in "S"
StopIdsEndingInS == {}

\* the schedule of trip 1, times in seconds: leaves A at 370, reaches B at 430
TripData1 ==
    [id |-> 1,
     stopTimes |-> <<[stopId |-> "A", arrival |-> NoTime, departure |-> 370],
                     [stopId |-> "B", arrival |-> 430, departure |-> NoTime]>>]

\* fetchTripData() returning null
NoTripData == [id |-> 0, stopTimes |-> <<>>]

TripIds == {1}

\* what fetchTripData() can fetch for a trip: null on an error, or the schedule
TripResponses(tripId) == {NoTripData, TripData1}

\* the vehicles the upstream can list: a train of trip 1 under way to B, last
\* updated at 100 s
Vehicles ==
    {[id |-> 1, tripId |-> 1, routeId |-> "A", directionId |-> "true", stopId |-> "B",
      currentStatus |-> "IN_TRANSIT_TO", updatedAt |-> 100]}

\* what fetchAllVehicles() can return: the concatenation of the pages read
\* before the first failing one, in the upstream's order
VehicleLists ==
    UNION {[1..n -> Vehicles] : n \in 0..MaxVehicles}

\* more vehicles the upstream can list, all last updated at 100 s: one at stop A
\* without a trip, stopped or arriving; one at a stop the upstream has no
\* coordinates for; one without a route; one without a stop
VehicleAt(id, routeId, stopId, currentStatus) ==
    [id |-> id, tripId |-> 0, routeId |-> routeId, directionId |-> "none",
     stopId |-> stopId, currentStatus |-> currentStatus, updatedAt |-> 100]

Vehicle1 == CHOOSE v \in Vehicles : v.id = 1

\* lists of up to three vehicles; in the last the upstream's pages repeat a vehicle
SnapshotVehicleLists ==
    {<<>>,
     <<Vehicle1>>,
     <<VehicleAt(2, "A", "A", "STOPPED_AT")>>,
     <<VehicleAt(2, "A", "A", "INCOMING_AT")>>,
     <<Vehicle1, VehicleAt(2, "A", "A", "STOPPED_AT")>>,
     <<VehicleAt(2, "A", "A", "STOPPED_AT"), Vehicle1>>,
     <<VehicleAt(2, "A", "A", "STOPPED_AT"), VehicleAt(6, "C", "B", "STOPPED_AT")>>,
     <<VehicleAt(6, "C", "B", "INCOMING_AT"), VehicleAt(2, "A", "A", "STOPPED_AT")>>,
     <<Vehicle1, VehicleAt(2, "A", "A", "STOPPED_AT"), VehicleAt(3, "A", "X", "STOPPED_AT")>>,
     <<VehicleAt(4, "", "A", "STOPPED_AT"), VehicleAt(2, "A", "A", "STOPPED_AT"),
       VehicleAt(5, "A", "", "STOPPED_AT")>>,
     <<VehicleAt(2, "A", "A", "STOPPED_AT"), VehicleAt(2, "A", "A", "STOPPED_AT")>>}

NoTripCacheEntry == [exists |-> FALSE, data |-> NoTripData, timestamp |-> 0]

getCachedStopCoordinates(cache, stopId) ==
    IF stopId \in cache THEN <<StopCoordinates[stopId]>> ELSE <<>>

\* fetchTripData() answers from the cache
TripCacheFresh(cache, tripId, t) ==
    cache[tripId].exists /\ t - cache[tripId].timestamp < TRIP_CACHE_TTL

\* fetchTripsForVehicles(): the trips it requests
TripRequests(vehicles) ==
    {vehicles[i].tripId : i \in {j \in 1..Len(vehicles) :
                                    vehicles[j].tripId # 0 /\ vehicles[j].routeId # ""}}

(***************************************************************************)
(* transiter/position-calculator.ts                                        *)
(***************************************************************************)
NoBearing == -1

NoStopTiming == [stopId |-> "", latitude |-> 0, longitude |-> 0, time |-> 0]

\* the % of JavaScript: the remainder has the sign of the dividend
JsRemainder(a, b) == IF a >= 0 THEN a % b ELSE -((-a) % b)

\* Math.atan2(y, x) * 180 / Math.PI in whole degrees: what it can be for the two
\* points.  On one meridian y is 0 and the sign of x decides between 0 and 180
\* (x is 0 for identical points); to the east y > 0, to the west y < 0.
Atan2Outputs(fromLat, fromLon, toLat, toLon) ==
    IF toLon = fromLon THEN (IF toLat >= fromLat THEN {0} ELSE {180})
    ELSE IF toLon > fromLon THEN {1, 45, 90, 135, 179}
    ELSE {-179, -135, -90, -45, -1}

\* exact for two points on one meridian; the quadrant's axis otherwise
atan2Degrees(fromLat, fromLon, toLat, toLon) ==
    IF toLon = fromLon THEN (IF toLat >= fromLat THEN 0 ELSE 180)
    ELSE IF toLon > fromLon THEN 90 ELSE -90

\* (bearing + 360) % 360
NormalizeBearing(bearing) == JsRemainder(bearing + 360, 360)

calculateBearing(fromLat, fromLon, toLat, toLon) ==
    NormalizeBearing(atan2Degrees(fromLat, fromLon, toLat, toLon))

\* index (from 1) of the first stop time of the stop, 0 if there is none
findStopInTrip(stopTimes, stopId) ==
    LET hits == {i \in 1..Len(stopTimes) : stopTimes[i].stopId = stopId}
    IN  IF hits = {} THEN 0 ELSE CHOOSE i \in hits : \A j \in hits : i <= j

\* a time that is present (NoTime: no time string, or an empty one) and not 0
Truthy(time) == time # NoTime /\ time # 0

\* a position at the coordinates of a stop, without timing anchors or bearing
StaticPosition(coords) ==
    [latitude |-> coords.lat, longitude |-> coords.lon,
     prevStop |-> NoStopTiming, nextStop |-> NoStopTiming, bearing |-> NoBearing]

\* STOPPED_AT: the stop's coordinates, with the bearing to the next stop of the
\* trip when that stop is known
StoppedPosition(tripData, cache, cur, match) ==
    IF /\ tripData # NoTripData
       /\ match # 0
       /\ match < Len(tripData.stopTimes)
       /\ getCachedStopCoordinates(cache, tripData.stopTimes[match + 1].stopId) # <<>>
    THEN [StaticPosition(cur) EXCEPT !.bearing =
            calculateBearing(cur.lat, cur.lon,
                             StopCoordinates[tripData.stopTimes[match + 1].stopId].lat,
                             StopCoordinates[tripData.stopTimes[match + 1].stopId].lon)]
    ELSE StaticPosition(cur)

\* departure time of the previous stop, else its arrival time, else null
PrevDeparture(prevStopTime) ==
    IF prevStopTime.departure # NoTime THEN prevStopTime.departure
    ELSE IF prevStopTime.arrival # NoTime THEN prevStopTime.arrival
    ELSE NoTime

\* from + (to - from) * max(0, min(1, elapsed / totalTime)), times in ms
Interpolate(from, to, elapsed, totalTime) ==
    from + ((to - from) *
                (IF elapsed < 0 THEN 0 ELSE IF elapsed > totalTime THEN totalTime ELSE elapsed))
           \div totalTime

\* the interpolated position with its timing anchors and the bearing to the stop ahead
AnchoredPosition(cur, prevCoords, prevStopId, stopId, prevDeparture, currentArrival, currentLat, currentLon) ==
    [latitude |-> currentLat, longitude |-> currentLon,
     prevStop |-> [stopId |-> prevStopId, latitude |-> prevCoords.lat,
                   longitude |-> prevCoords.lon, time |-> prevDeparture],
     nextStop |-> [stopId |-> stopId, latitude |-> cur.lat,
                   longitude |-> cur.lon, time |-> currentArrival],
     bearing |-> calculateBearing(currentLat, currentLon, cur.lat, cur.lon)]

TimedPosition_anyOrder(t, cur, prevCoords, prevStopId, stopId, prevDeparture, currentArrival) ==
    IF Truthy(prevDeparture) /\ Truthy(currentArrival)
    THEN AnchoredPosition(cur, prevCoords, prevStopId, stopId, prevDeparture,
            currentArrival, cur.lat, cur.lon)
    ELSE StaticPosition(cur)

\* INCOMING_AT, IN_TRANSIT_TO or no status, the previous stop's coordinates known
TimedPosition(t, cur, prevCoords, prevStopId, stopId, prevDeparture, currentArrival) ==
    IF /\ Truthy(prevDeparture)
       /\ Truthy(currentArrival)
       /\ currentArrival > prevDeparture
    THEN AnchoredPosition(cur, prevCoords, prevStopId, stopId, prevDeparture,
            currentArrival,
            Interpolate(prevCoords.lat, cur.lat, t - prevDeparture * 1000,
                        (currentArrival - prevDeparture) * 1000),
            Interpolate(prevCoords.lon, cur.lon, t - prevDeparture * 1000,
                        (currentArrival - prevDeparture) * 1000))
    ELSE StaticPosition(cur)

\* the vehicle's stop has coordinates cur and is the match-th stop time of the
\* trip (0: none)
PositionAt(vehicle, tripData, cache, t, cur, match) ==
    IF vehicle.currentStatus = "STOPPED_AT"
    THEN StoppedPosition(tripData, cache, cur, match)
    ELSE IF tripData = NoTripData THEN StaticPosition(cur)
    ELSE IF Len(tripData.stopTimes) = 0 THEN StaticPosition(cur)
    ELSE IF match = 0 \/ match = 1 THEN StaticPosition(cur)
    ELSE IF vehicle.currentStatus \in {"INCOMING_AT", "IN_TRANSIT_TO", "none"}
    THEN IF getCachedStopCoordinates(cache, tripData.stopTimes[match - 1].stopId) = <<>>
         THEN StaticPosition(cur)
         ELSE TimedPosition(t, cur,
                    StopCoordinates[tripData.stopTimes[match - 1].stopId],
                    tripData.stopTimes[match - 1].stopId,
                    tripData.stopTimes[match].stopId,
                    PrevDeparture(tripData.stopTimes[match - 1]),
                    tripData.stopTimes[match].arrival)
    ELSE StaticPosition(cur)

\* <<>> for null, else <<PositionData>>; t is Date.now()
calculateTrainPosition(vehicle, tripData, cache, t) ==
    IF vehicle.stopId = "" THEN <<>>
    ELSE IF getCachedStopCoordinates(cache, vehicle.stopId) = <<>> THEN <<>>
    ELSE <<PositionAt(vehicle, tripData, cache, t, StopCoordinates[vehicle.stopId],
                      findStopInTrip(tripData.stopTimes, vehicle.stopId))>>

(***************************************************************************)
(* transiter/poller.ts                                                     *)
(***************************************************************************)
\* the Train of a vehicle at position p; t is Date.now()
TrainAt(vehicle, p, t) ==
    [id |-> vehicle.id,
     line |-> vehicle.routeId,
     direction |-> IF vehicle.directionId # "none"
                   THEN (IF vehicle.directionId = "true" THEN "S" ELSE "N")
                   ELSE IF vehicle.stopId \in StopIdsEndingInS THEN "S" ELSE "N",
     latitude |-> p.latitude,
     longitude |-> p.longitude,
     timestamp |-> IF vehicle.updatedAt # NoTime THEN vehicle.updatedAt * 1000 ELSE t,
     stopId |-> vehicle.stopId,
     status |-> CASE vehicle.currentStatus = "INCOMING_AT" -> "INCOMING"
                  [] vehicle.currentStatus = "STOPPED_AT" -> "AT_STOP"
                  [] OTHER -> "IN_TRANSIT",
     prevStop |-> p.prevStop,
     nextStop |-> p.nextStop,
     bearing |-> p.bearing]

\* <<>> for null, else <<Train>>
TrainOf(vehicle, positionData, t) ==
    IF positionData = <<>> THEN <<>> ELSE <<TrainAt(vehicle, positionData[1], t)>>

vehicleToTrain_anyRoute(vehicle, tripData, cache, t) ==
    IF vehicle.stopId = "" THEN <<>>
    ELSE TrainOf(vehicle, calculateTrainPosition(vehicle, tripData, cache, t), t)

vehicleToTrain(vehicle, tripData, cache, t) ==
    IF vehicle.routeId = "" THEN <<>>
    ELSE IF vehicle.stopId = "" THEN <<>>
    ELSE TrainOf(vehicle, calculateTrainPosition(vehicle, tripData, cache, t), t)

\* x put before the first train of the sorted list whose id is not smaller
InsertById(x, sorted) ==
    SubSeq(sorted, 1, Cardinality({i \in 1..Len(sorted) : sorted[i].id < x.id}))
        \o <<x>>
        \o SubSeq(sorted, Cardinality({i \in 1..Len(sorted) : sorted[i].id < x.id}) + 1,
                  Len(sorted))

\* [...trains].sort((a, b) => a.id.localeCompare(b.id)): a stable sort
sortById_unsorted(trains) == trains

RECURSIVE sortById(_)
sortById(trains) ==
    IF trains = <<>> THEN <<>>
    ELSE InsertById(Head(trains), sortById(Tail(trains)))

HashOf(sorted) == [i \in 1..Len(sorted) |-> HashPart(sorted[i])]

computeHash(trains) == HashOf(sortById(trains))

\* tripDataMap.get(vehicle.id) || null
TripDataOf(vehicle, tripDataMap) ==
    IF vehicle.tripId \in DOMAIN tripDataMap THEN tripDataMap[vehicle.tripId]
    ELSE NoTripData

\* the train passes poll()'s filter: it is not null and not stale at pollNow
KeepFresh(train, pollNow) ==
    IF train # <<>> /\ pollNow - train[1].timestamp <= STALE_THRESHOLD_MS
    THEN train ELSE <<>>

\* the loop of poll(): the trains of the vehicles, the null and the stale ones left out
RECURSIVE ConvertVehicles(_, _, _, _, _)
ConvertVehicles(vehicles, tripDataMap, cache, pollNow, t) ==
    IF vehicles = <<>> THEN <<>>
    ELSE KeepFresh(vehicleToTrain(Head(vehicles), TripDataOf(Head(vehicles), tripDataMap),
                                  cache, t), pollNow)
            \o ConvertVehicles(Tail(vehicles), tripDataMap, cache, pollNow, t)

NoCycle == [valid |-> FALSE, vehicles |-> <<>>, tripData |-> <<>>, stops |-> {},
            repeat |-> FALSE, broadcast |-> FALSE, overtaken |-> FALSE,
            fetchFailed |-> FALSE, trains |-> <<>>, now |-> 0, healthy |-> FALSE]

\* getFeedStatuses(): the one status it reports, from lastPollTime and isTransiterHealthy
FeedStatusOf(lastUpdate, healthy) ==
    [feedId |-> "transiter", lastUpdate |-> lastUpdate, isHealthy |-> healthy,
     errorCount |-> IF healthy THEN 0 ELSE 1]

getFeedStatuses == FeedStatusOf(lastPollTime, isTransiterHealthy)

getTrains == currentTrains

NoWrite == [bad |-> 0, throws |-> FALSE]

\* what the write() calls of one loop over the clients do: the write to client
\* `bad` fails (0: none does), by throwing or without a sign to the caller
WriteOutcomes(maxClients) ==
    {NoWrite} \cup {[bad |-> b, throws |-> t] : b \in 1..maxClients, t \in BOOLEAN}

Range(seq) == {seq[k] : k \in 1..Len(seq)}

IndexOf(seq, x) == CHOOSE k \in 1..Len(seq) : seq[k] = x

\* whether the loop `for (const client of clients) client.write(message)` is left
\* by an exception
Throws(cs, w) == w.bad \in Range(cs) /\ w.throws

\* the clients that loop has written the message to
Written(cs, w) ==
    IF w.bad \notin Range(cs) THEN Range(cs)
    ELSE IF w.throws THEN {cs[k] : k \in 1..(IndexOf(cs, w.bad) - 1)}
    ELSE Range(cs) \ {w.bad}

\* a message: what it carries, the clients it reached (to) and the client whose
\* write failed
Message(kind, trains, statuses, to, failed) ==
    [kind |-> kind, trains |-> trains, trainCount |-> Len(trains),
     feedStatuses |-> statuses, timestamp |-> now, to |-> to, failed |-> failed]

NoMessage ==
    [kind |-> "none", trains |-> <<>>, trainCount |-> 0,
     feedStatuses |-> FeedStatusOf(0, FALSE), timestamp |-> 0, to |-> {}, failed |-> 0]

\* the modules' state once loaded
TransiterInit ==
    /\ currentTrains = <<>>
    /\ lastUpdateHash = <<>>
    /\ lastPollTime = 0
    /\ isTransiterHealthy = FALSE
    /\ transiterPollInterval = FALSE
    /\ timerDue = FALSE
    /\ stopCache = {}
    /\ tripCache = [id \in TripIds |-> NoTripCacheEntry]
    /\ cycles = <<>>
    /\ clients = <<>>
    /\ lastDone = NoCycle
    /\ published = NoMessage

\* poll() up to its first await: the call of fetchAllVehicles()
\* next: no poll() has returned since this one began and one had returned before;
\* overtaken: a poll() that began later has returned
PollBegin(initial, maxInFlight) ==
    /\ Len(cycles) < maxInFlight
    /\ cycles' = Append(cycles, [initial |-> initial,
                                 phase |-> "vehicles", vehicles |-> <<>>, now |-> 0,
                                 tripData |-> <<>>, next |-> lastDone.valid,
                                 overtaken |-> FALSE, failed |-> FALSE])

\* the calls still under way once the i-th one has returned
Returned(i) ==
    [j \in 1..(Len(cycles) - 1) |->
        IF j < i THEN [cycles[j] EXCEPT !.next = FALSE, !.overtaken = TRUE]
        ELSE [cycles[j + 1] EXCEPT !.next = FALSE]]

\* broadcastTrains(), stream.ts: the message of the snapshot `trains` with the
\* statuses `statuses`, written to the clients in turn
broadcastTrains(trains, statuses, w) ==
    Message("broadcast", trains, statuses, Written(clients, w),
            IF w.bad \in Range(clients) THEN w.bad ELSE 0)

\* the record of the poll() call that returns
Done(i, vehicles, failed, pollNow, tripDataMap, trains, changed, healthy) ==
    [valid |-> TRUE, vehicles |-> vehicles, tripData |-> tripDataMap,
     stops |-> stopCache,
     repeat |-> /\ cycles[i].next
                /\ lastDone.vehicles = vehicles
                /\ lastDone.tripData = tripDataMap
                /\ lastDone.stops = stopCache,
     broadcast |-> changed,
     overtaken |-> cycles[i].overtaken,
     fetchFailed |-> failed,
     trains |-> trains, now |-> pollNow, healthy |-> healthy]

\* poll() after the conversion loop, for the i-th call under way: the snapshot
\* `trains` is installed with the time and the health
PollInstall_keepTime(i, vehicles, failed, pollNow, tripDataMap, trains, changed, healthy) ==
    /\ currentTrains' = trains
    /\ lastPollTime' = lastPollTime
    /\ isTransiterHealthy' = healthy
    /\ lastDone' = Done(i, vehicles, failed, pollNow, tripDataMap, trains, changed, healthy)
    /\ cycles' = Returned(i)
    /\ transiterPollInterval' = (transiterPollInterval \/ cycles[i].initial)

\* `healthy` is FALSE when the broadcast has thrown into poll()'s catch block;
\* startPolling() goes on to set the interval when the call is its initial poll
PollInstall(i, vehicles, failed, pollNow, tripDataMap, trains, changed, healthy) ==
    /\ currentTrains' = trains
    /\ lastPollTime' = pollNow
    /\ isTransiterHealthy' = healthy
    /\ lastDone' = Done(i, vehicles, failed, pollNow, tripDataMap, trains, changed, healthy)
    /\ cycles' = Returned(i)
    /\ transiterPollInterval' = (transiterPollInterval \/ cycles[i].initial)

\* poll() from `const hash = computeHash(trains)` on: if the hash is new,
\* onDataChanged() broadcasts the snapshot just installed
PollHash(i, vehicles, failed, pollNow, tripDataMap, trains, hash, w) ==
    /\ IF hash # lastUpdateHash
       THEN /\ lastUpdateHash' = hash
            /\ published' = broadcastTrains(trains, FeedStatusOf(pollNow, TRUE), w)
            /\ PollInstall(i, vehicles, failed, pollNow, tripDataMap, trains, TRUE,
                           ~Throws(clients, w))
       ELSE /\ lastUpdateHash' = lastUpdateHash
            /\ published' = NoMessage
            /\ PollInstall(i, vehicles, failed, pollNow, tripDataMap, trains, FALSE, TRUE)
    /\ clients' = clients

PollTrains(i, vehicles, failed, pollNow, tripDataMap, trains, w) ==
    PollHash(i, vehicles, failed, pollNow, tripDataMap, trains, computeHash(trains), w)

\* poll() from the conversion loop to its end
PollEnd(i, vehicles, failed, pollNow, tripDataMap, w) ==
    PollTrains(i, vehicles, failed, pollNow, tripDataMap,
               ConvertVehicles(vehicles, tripDataMap, stopCache, pollNow, now), w)

\* startPolling() up to its initial poll(): the health checks and the preload
\* are over, `loaded` is what the preload has read; index.ts calls it once, when
\* the process starts
TransiterStartPolling(loaded, maxInFlight) ==
    /\ ~transiterPollInterval
    /\ cycles = <<>>
    /\ ~lastDone.valid
    /\ stopCache' = stopCache \cup loaded
    /\ PollBegin(TRUE, maxInFlight)
    /\ published' = NoMessage
    /\ UNCHANGED <<now, currentTrains, lastUpdateHash, lastPollTime, isTransiterHealthy,
                   transiterPollInterval, timerDue, tripCache, clients, lastDone>>

\* the interval timer's callback: poll(), not awaited
TransiterPollTimer(maxInFlight) ==
    /\ transiterPollInterval
    /\ timerDue
    /\ timerDue' = FALSE
    /\ PollBegin(FALSE, maxInFlight)
    /\ published' = NoMessage
    /\ UNCHANGED <<now, currentTrains, lastUpdateHash, lastPollTime, isTransiterHealthy,
                   transiterPollInterval, stopCache, tripCache, clients, lastDone>>

\* stopPolling(): poll() calls already under way go on
TransiterStopPolling ==
    /\ transiterPollInterval
    /\ transiterPollInterval' = FALSE
    /\ timerDue' = FALSE
    /\ published' = NoMessage
    /\ UNCHANGED <<now, currentTrains, lastUpdateHash, lastPollTime, isTransiterHealthy,
                   stopCache, tripCache, cycles, clients, lastDone>>

\* fetchAllVehicles() returns `vehicles` to poll(): every vehicle of the upstream,
\* or, when a page request has failed (`failed`), those of the pages read before
\* it.  poll() takes `now` and calls fetchTripsForVehicles(), which answers at
\* once when every trip is fresh in the cache
VehiclesFetched(i, vehicles, failed, w) ==
    /\ i \in 1..Len(cycles)
    /\ cycles[i].phase = "vehicles"
    /\ LET requests == TripRequests(vehicles)
           fresh == {id \in requests : TripCacheFresh(tripCache, id, now)}
           cached == [id \in fresh |-> tripCache[id].data]
       IN  IF fresh = requests
           THEN PollEnd(i, vehicles, failed, now, cached, w)
           ELSE /\ cycles' = [cycles EXCEPT ![i].phase = "trips",
                                            ![i].vehicles = vehicles,
                                            ![i].now = now,
                                            ![i].tripData = cached,
                                            ![i].failed = failed]
                /\ published' = NoMessage
                /\ UNCHANGED <<currentTrains, lastUpdateHash, lastPollTime,
                               isTransiterHealthy, transiterPollInterval, clients,
                               lastDone>>
    /\ UNCHANGED <<now, timerDue, stopCache, tripCache>>

\* the trip requests of fetchTripsForVehicles() return; poll() runs to its end
TripsFetched(i, responses, w) ==
    /\ i \in 1..Len(cycles)
    /\ cycles[i].phase = "trips"
    /\ DOMAIN responses = TripRequests(cycles[i].vehicles) \ DOMAIN cycles[i].tripData
    /\ tripCache' = [id \in TripIds |->
            IF id \in DOMAIN responses /\ responses[id] # NoTripData
            THEN [exists |-> TRUE, data |-> responses[id], timestamp |-> now]
            ELSE tripCache[id]]
    /\ PollEnd(i, cycles[i].vehicles, cycles[i].failed, cycles[i].now,
               [id \in TripRequests(cycles[i].vehicles) |->
                    IF id \in DOMAIN responses THEN responses[id]
                    ELSE cycles[i].tripData[id]], w)
    /\ UNCHANGED <<now, timerDue, stopCache>>

\* GET /api/trains/stream, stream.ts: the response `c` joins the clients and is
\* written the current snapshot
StreamConnect(c) ==
    /\ c \notin Range(clients)
    /\ clients' = Append(clients, c)
    /\ published' = Message("connect", getTrains, getFeedStatuses, {c}, 0)
    /\ UNCHANGED <<now, currentTrains, lastUpdateHash, lastPollTime, isTransiterHealthy,
                   transiterPollInterval, timerDue, stopCache, tripCache, cycles,
                   lastDone>>

\* the "close" event of the request of client `c`
StreamClose(c) ==
    /\ c \in Range(clients)
    /\ clients' = SelectSeq(clients, LAMBDA x : x # c)
    /\ published' = NoMessage
    /\ UNCHANGED <<now, currentTrains, lastUpdateHash, lastPollTime, isTransiterHealthy,
                   transiterPollInterval, timerDue, stopCache, tripCache, cycles,
                   lastDone>>

\* broadcastHeartbeat(), the callback of the heartbeat interval that index.ts
\* starts with the server; an exception of write() leaves the loop and the callback
broadcastHeartbeat(w) ==
    /\ published' = Message("heartbeat", <<>>, getFeedStatuses, Written(clients, w),
                            IF w.bad \in Range(clients) THEN w.bad ELSE 0)
    /\ UNCHANGED <<now, currentTrains, lastUpdateHash, lastPollTime, isTransiterHealthy,
                   transiterPollInterval, timerDue, stopCache, tripCache, cycles,
                   clients, lastDone>>

\* GET /api/trains, trains.ts: the response
GetTrains ==
    /\ published' = Message("pull", getTrains, getFeedStatuses, {}, 0)
    /\ UNCHANGED <<now, currentTrains, lastUpdateHash, lastPollTime, isTransiterHealthy,
                   transiterPollInterval, timerDue, stopCache, tripCache, cycles,
                   clients, lastDone>>

\* GET /api/status, status.ts: the response reports the statuses and the number
\* of trains
GetStatus ==
    /\ published' = [Message("status", <<>>, getFeedStatuses, {}, 0)
                        EXCEPT !.trainCount = Len(getTrains)]
    /\ UNCHANGED <<now, currentTrains, lastUpdateHash, lastPollTime, isTransiterHealthy,
                   transiterPollInterval, timerDue, stopCache, tripCache, cycles,
                   clients, lastDone>>

\* the clock starts one poll interval before the update of vehicle 1 turns stale
TransiterStart == STALE_THRESHOLD_MS + 100 * 1000 - POLL_INTERVAL_MS

\* a poll interval passes; the interval timer, if set, falls due.  No trip request
\* is under way for so long: fetchTripData() aborts its request after 5 s
TransiterClock(maxTicks) ==
    /\ ~timerDue
    /\ \A i \in 1..Len(cycles) : cycles[i].phase # "trips"
    /\ now + POLL_INTERVAL_MS <= TransiterStart + maxTicks * POLL_INTERVAL_MS
    /\ now' = now + POLL_INTERVAL_MS
    /\ timerDue' = transiterPollInterval
    /\ published' = NoMessage
    /\ UNCHANGED <<currentTrains, lastUpdateHash, lastPollTime, isTransiterHealthy,
                   transiterPollInterval, stopCache, tripCache, cycles, clients,
                   lastDone>>


(***************************************************************************)
(* frontend: hooks/useTrainStream.ts, store/train-store.ts,                *)
(* components/HeartbeatIndicator.tsx                                       *)
(***************************************************************************)
\* what a trains event of the stream carries: the snapshots the poller publishes
\* for at most one vehicle
StreamPayloads ==
    {[trains |-> ConvertVehicles(vehicles, [id \in TripIds |-> TripData1], {"A", "B"},
                                 TransiterStart, TransiterStart),
      feedStatuses |-> FeedStatusOf(TransiterStart, TRUE)] :
        vehicles \in {<<>>} \cup {<<v>> : v \in Vehicles}}

NoPayload == [trains |-> <<>>, feedStatuses |-> <<>>]

NoEvent == [kind |-> "none", payload |-> NoPayload, delayBefore |-> INITIAL_RETRY_DELAY]

\* the event the step handles, with the retry delay it finds
Event(kind, payload) == [kind |-> kind, payload |-> payload, delayBefore |-> retryDelay]

\* train-store.ts: the initial state of the store
InitialStore ==
    [trains |-> <<>>, feedStatuses |-> <<>>, lastUpdate |-> 0,
     isConnected |-> FALSE, isConnecting |-> FALSE]

setTrains(s, trains, feedStatuses) ==
    [s EXCEPT !.trains = trains, !.feedStatuses = feedStatuses, !.lastUpdate = now]

setConnectionState(s, connected, connecting) ==
    [s EXCEPT !.isConnected = connected, !.isConnecting = connecting]

checkStale_atThreshold(lastUpdate, t) == t - lastUpdate >= INDICATOR_STALE_THRESHOLD_MS

\* checkStale(): the value it gives isStale at time t
checkStale(lastUpdate, t) == t - lastUpdate > INDICATOR_STALE_THRESHOLD_MS

\* HeartbeatIndicator's effects when the store turns into `s`: the first one
\* clears the flag when lastUpdate has changed; the second one, when isConnected
\* or lastUpdate has changed, clears its interval and, if connected with data,
\* runs checkStale() and sets the interval anew
HeartbeatIndicatorEffects(s) ==
    IF s.lastUpdate = store.lastUpdate /\ s.isConnected = store.isConnected
    THEN UNCHANGED <<isStale, staleInterval>>
    ELSE IF s.isConnected /\ s.lastUpdate # 0
    THEN /\ isStale' = checkStale(s.lastUpdate, now)
         /\ staleInterval' = now + StaleCheckMs
    ELSE /\ isStale' = IF s.lastUpdate # store.lastUpdate /\ s.lastUpdate > 0
                       THEN FALSE ELSE isStale
         /\ staleInterval' = NoTime

\* the store turns into `s` and the components that read it render
Render(s) ==
    /\ store' = s
    /\ HeartbeatIndicatorEffects(s)

\* the state once useTrainStream's effect has run: connect() has been called and
\* the timer of fetchCachedTrains is set; the indicator is mounted
ClientInit ==
    /\ retryDelay = INITIAL_RETRY_DELAY
    /\ eventSource = "connecting"
    /\ retryTimeout = NoTime
    /\ store = setConnectionState(InitialStore, FALSE, TRUE)
    /\ cachedTrains = "timer"
    /\ isStale = FALSE
    /\ staleInterval = NoTime
    /\ scheduled = <<>>
    /\ lastEvent = NoEvent

\* the timer of fetchCachedTrains fires: the request is sent
FetchCachedTrains ==
    /\ cachedTrains = "timer"
    /\ cachedTrains' = "fetching"
    /\ lastEvent' = Event("cacheTimer", NoPayload)
    /\ UNCHANGED <<now, retryDelay, eventSource, retryTimeout, store, isStale,
                   staleInterval, scheduled>>

\* the response to fetchCachedTrains: `ok` with the cached snapshot, or a failure
CachedTrainsFetched(ok, payload) ==
    /\ cachedTrains = "fetching"
    /\ cachedTrains' = "done"
    /\ IF ok THEN Render(setTrains(store, payload.trains, payload.feedStatuses))
       ELSE UNCHANGED <<store, isStale, staleInterval>>
    /\ lastEvent' = Event("cached", IF ok THEN payload ELSE NoPayload)
    /\ UNCHANGED <<now, retryDelay, eventSource, retryTimeout, scheduled>>

\* eventSource.onopen
OnOpen_noReset ==
    /\ eventSource = "connecting"
    /\ eventSource' = "open"
    /\ Render(setConnectionState(store, TRUE, FALSE))
    /\ retryDelay' = retryDelay
    /\ scheduled' = <<>>
    /\ lastEvent' = Event("open", NoPayload)
    /\ UNCHANGED <<now, retryTimeout, cachedTrains>>

OnOpen ==
    /\ eventSource = "connecting"
    /\ eventSource' = "open"
    /\ Render(setConnectionState(store, TRUE, FALSE))
    /\ retryDelay' = INITIAL_RETRY_DELAY
    /\ scheduled' = <<>>
    /\ lastEvent' = Event("open", NoPayload)
    /\ UNCHANGED <<now, retryTimeout, cachedTrains>>

\* the "trains" listener: JSON.parse of the event's data, then setTrains
OnTrains(payload) ==
    /\ eventSource = "open"
    /\ Render(setTrains(store, payload.trains, payload.feedStatuses))
    /\ lastEvent' = Event("trains", payload)
    /\ UNCHANGED <<now, retryDelay, eventSource, retryTimeout, cachedTrains, scheduled>>

\* the "heartbeat" listener
OnHeartbeat ==
    /\ eventSource = "open"
    /\ lastEvent' = Event("heartbeat", NoPayload)
    /\ UNCHANGED <<now, retryDelay, eventSource, retryTimeout, store, cachedTrains,
                   isStale, staleInterval, scheduled>>

\* eventSource.onerror: the reconnection is scheduled with the current delay
OnError(maxErrors) ==
    /\ eventSource \in {"connecting", "open"}
    /\ Len(scheduled) < maxErrors
    /\ Render(setConnectionState(store, FALSE, FALSE))
    /\ eventSource' = "closed"
    /\ retryTimeout' = retryDelay
    /\ scheduled' = Append(scheduled, retryDelay)
    /\ lastEvent' = Event("error", NoPayload)
    /\ UNCHANGED <<now, retryDelay, cachedTrains>>

nextRetryDelay_uncapped(delay) == delay * 2

nextRetryDelay_wrap(delay) ==
    IF delay * 2 > MAX_RETRY_DELAY THEN INITIAL_RETRY_DELAY ELSE delay * 2

\* Math.min(retryDelayRef.current * 2, MAX_RETRY_DELAY)
nextRetryDelay(delay) ==
    IF delay * 2 < MAX_RETRY_DELAY THEN delay * 2 ELSE MAX_RETRY_DELAY

\* the reconnection timer's callback: the delay is doubled, then connect()
RetryTimer ==
    /\ retryTimeout # NoTime
    /\ retryTimeout' = NoTime
    /\ retryDelay' = nextRetryDelay(retryDelay)
    /\ eventSource' = "connecting"
    /\ Render(setConnectionState(store, FALSE, TRUE))
    /\ lastEvent' = Event("retry", NoPayload)
    /\ UNCHANGED <<now, cachedTrains, scheduled>>

\* the effect's cleanup on unmount: the timers are cleared, the source is closed
Unmount ==
    /\ eventSource # "unmounted"
    /\ eventSource' = "unmounted"
    /\ retryTimeout' = NoTime
    /\ cachedTrains' = IF cachedTrains = "timer" THEN "done" ELSE cachedTrains
    /\ lastEvent' = Event("unmount", NoPayload)
    /\ UNCHANGED <<now, retryDelay, store, isStale, staleInterval, scheduled>>

\* the step of the client's clock: half a check period
ClientClockStep == StaleCheckMs \div 2

ClientStart == 100000

\* time passes; the indicator's interval, when it falls due, runs checkStale()
ClientClock(maxTicks) ==
    /\ now + ClientClockStep <= ClientStart + maxTicks * ClientClockStep
    /\ now' = now + ClientClockStep
    /\ IF staleInterval # NoTime /\ staleInterval <= now'
       THEN /\ isStale' = checkStale(store.lastUpdate, now')
            /\ staleInterval' = staleInterval + StaleCheckMs
       ELSE UNCHANGED <<isStale, staleInterval>>
    /\ lastEvent' = Event("clock", NoPayload)
    /\ UNCHANGED <<retryDelay, eventSource, retryTimeout, store, cachedTrains, scheduled>>


(***************************************************************************)
(* frontend: hooks/useStopArrivals.ts, store/stop-store.ts                 *)
(***************************************************************************)
StopIds == {"A", "B"}

\* null, for a stop id and for a message
None == ""

\* what the arrivals endpoint answers for a stop: the arrivals, an error status
\* with its code, or nothing (a network failure)
ArrivalsOutcomes ==
    {"ok", "STOP_NOT_FOUND", "TIMEOUT", "SERVICE_UNAVAILABLE", "other", "failed"}

NoStopData == [stopId |-> None]

NoWriter == [kind |-> "none", request |-> 0, stopId |-> None]

\* stop-store.ts: the initial state of the store
InitialStopStore ==
    [selectedStopId |-> None, stopData |-> NoStopData, isLoading |-> FALSE,
     error |-> None, pollingInterval |-> FALSE]

selectStop(s, stopId) == [s EXCEPT !.selectedStopId = stopId, !.error = None]

clearSelection(s) ==
    [s EXCEPT !.selectedStopId = None, !.stopData = NoStopData, !.error = None,
              !.isLoading = FALSE]

setStopData(s, data) == [s EXCEPT !.stopData = data, !.isLoading = FALSE, !.error = None]

setLoading(s, loading) == [s EXCEPT !.isLoading = loading]

setError(s, error) == [s EXCEPT !.error = error, !.isLoading = FALSE]

setPollingInterval(s, interval) == [s EXCEPT !.pollingInterval = interval]

ArrivalsInit ==
    /\ stopStore = InitialStopStore
    /\ abortController = 0
    /\ fetches = {}
    /\ issued = 0
    /\ lastWriter = NoWriter

\* abortControllerRef.current?.abort(): the request of that controller, if it is
\* still in flight, will end with an AbortError
abort(rs) == {[r EXCEPT !.aborted = r.aborted \/ r.id = abortController] : r \in rs}

fetchArrivals_noAbort(s, rs, stopId) ==
    /\ stopStore' = setError(setLoading(s, TRUE), None)
    /\ issued' = issued + 1
    /\ abortController' = issued + 1
    /\ fetches' = rs \cup {[id |-> issued + 1, stopId |-> stopId, aborted |-> FALSE]}

\* fetchArrivals(stopId) up to its await, from the store `s` and the fetches
\* `rs`: the previous request is aborted and a new one is sent
fetchArrivals(s, rs, stopId) ==
    /\ stopStore' = setError(setLoading(s, TRUE), None)
    /\ issued' = issued + 1
    /\ abortController' = issued + 1
    /\ fetches' = abort(rs) \cup {[id |-> issued + 1, stopId |-> stopId, aborted |-> FALSE]}

\* the cleanup of the effect that watched a selected stop
EffectCleanup(s) == setPollingInterval(s, FALSE)

\* selectStop(stopId) and the effect on selectedStopId: when the selection has
\* changed, the cleanup of the previous run (interval cleared, request aborted),
\* then the initial fetch and the new interval
SelectStop(stopId, maxRequests) ==
    /\ IF stopId = stopStore.selectedStopId
       THEN /\ stopStore' = selectStop(stopStore, stopId)
            /\ UNCHANGED <<abortController, fetches, issued>>
       ELSE /\ issued < maxRequests
            /\ IF stopStore.selectedStopId # None
               THEN fetchArrivals(setPollingInterval(
                                      EffectCleanup(selectStop(stopStore, stopId)), TRUE),
                                  abort(fetches), stopId)
               ELSE fetchArrivals(setPollingInterval(selectStop(stopStore, stopId), TRUE),
                                  fetches, stopId)
    /\ lastWriter' = NoWriter
    /\ UNCHANGED now

\* clearSelection() and the effect on selectedStopId
ClearSelection ==
    /\ IF stopStore.selectedStopId # None
       THEN /\ stopStore' = EffectCleanup(clearSelection(stopStore))
            /\ fetches' = abort(fetches)
       ELSE /\ stopStore' = clearSelection(stopStore)
            /\ fetches' = fetches
    /\ lastWriter' = NoWriter
    /\ UNCHANGED <<now, abortController, issued>>

\* the polling interval's callback
ArrivalsPollTimer(maxRequests) ==
    /\ stopStore.pollingInterval
    /\ issued < maxRequests
    /\ fetchArrivals(stopStore, fetches, stopStore.selectedStopId)
    /\ lastWriter' = NoWriter
    /\ UNCHANGED now

\* the message fetchArrivals shows for an answer that is not the arrivals
ErrorMessage(outcome) ==
    CASE outcome = "STOP_NOT_FOUND" -> "Stop not found"
      [] outcome = "TIMEOUT" -> "Request timed out. Please try again."
      [] outcome = "SERVICE_UNAVAILABLE" -> "Service unavailable. Please try again later."
      [] outcome = "failed" -> "Failed to fetch arrivals"
      [] OTHER -> "Error: HTTP 500"

\* fetchArrivals after its awaits, for a request that was not aborted
ArrivalsFetched(r, outcome) ==
    /\ r \in fetches
    /\ ~r.aborted
    /\ fetches' = fetches \ {r}
    /\ IF outcome = "ok"
       THEN stopStore' = setStopData(stopStore, [stopId |-> r.stopId])
       ELSE stopStore' = setLoading(setError(stopStore, ErrorMessage(outcome)), FALSE)
    /\ lastWriter' = [kind |-> IF outcome = "ok" THEN "data" ELSE "error",
                      request |-> r.id, stopId |-> r.stopId]
    /\ UNCHANGED <<now, abortController, issued>>

\* fetchArrivals after its awaits, for an aborted request: the AbortError is
\* caught and nothing is written
ArrivalsAborted(r) ==
    /\ r \in fetches
    /\ r.aborted
    /\ fetches' = fetches \ {r}
    /\ lastWriter' = [kind |-> "aborted", request |-> r.id, stopId |-> r.stopId]
    /\ UNCHANGED <<now, stopStore, abortController, issued>>


(***************************************************************************)
(* backend: transiter/stops.ts, routes/stops.ts                            *)
(***************************************************************************)
\* the stop times the upstream can list for a stop: time is the arrival time in
\* seconds, 0 when the entry has neither arrival nor departure; routeId is ""
\* when the entry has no trip route
UpstreamStopTimes ==
    {[future |-> TRUE, routeId |-> "A", time |-> 100, directionId |-> FALSE, tripId |-> 1],
     [future |-> TRUE, routeId |-> "A", time |-> 50, directionId |-> TRUE, tripId |-> 2],
     [future |-> TRUE, routeId |-> "C", time |-> 60, directionId |-> FALSE, tripId |-> 3],
     [future |-> FALSE, routeId |-> "A", time |-> 100, directionId |-> FALSE, tripId |-> 4],
     [future |-> TRUE, routeId |-> "", time |-> 100, directionId |-> FALSE, tripId |-> 5],
     [future |-> TRUE, routeId |-> "A", time |-> 0, directionId |-> TRUE, tripId |-> 6]}

UpstreamStopTimeLists ==
    UNION {[1..n -> UpstreamStopTimes] : n \in 0..MaxStopTimes}

\* what the upstream does with the stop request: it answers with the stop, with
\* 404, with another error status, not within TIMEOUT_MS, or the request fails
UpstreamAnswers == {"ok", "notFound", "errorStatus", "timeout", "networkError"}

NoQuery == [stopId |-> None, upstream |-> "ok", stopTimes |-> <<>>]

NoReply == [status |-> 0, error |-> None, body |-> <<>>]

StopsInit ==
    /\ stopsQuery = NoQuery
    /\ stopsReply = NoReply

\* the loop over data.stopTimes: the entries kept, as StopArrival records
RECURSIVE ExtractArrivals(_, _)
ExtractArrivals(stopTimes, t) ==
    IF stopTimes = <<>> THEN <<>>
    ELSE (IF /\ Head(stopTimes).future
             /\ Head(stopTimes).routeId # ""
             /\ Head(stopTimes).time # 0
             /\ Head(stopTimes).time * 1000 > t
          THEN <<[routeId |-> Head(stopTimes).routeId,
                  direction |-> IF Head(stopTimes).directionId THEN "S" ELSE "N",
                  arrivalTime |-> Head(stopTimes).time,
                  vehicleId |-> Head(stopTimes).tripId]>>
          ELSE <<>>)
         \o ExtractArrivals(Tail(stopTimes), t)

\* arrivals.sort((a, b) => a.arrivalTime - b.arrivalTime): a stable sort
RECURSIVE SortByArrival(_)
SortByArrival(arrivals) ==
    IF arrivals = <<>> THEN <<>>
    ELSE LET rest == SortByArrival(Tail(arrivals))
             k == Cardinality({i \in 1..Len(rest) :
                                  rest[i].arrivalTime < Head(arrivals).arrivalTime})
         IN  SubSeq(rest, 1, k) \o <<Head(arrivals)>> \o SubSeq(rest, k + 1, Len(rest))

\* the arrivals of one direction: sorted, the first 10
DirectionArrivals(arrivals, direction) ==
    SubSeq(SortByArrival(SelectSeq(arrivals, LAMBDA a : a.direction = direction)), 1,
           IF Cardinality({i \in 1..Len(arrivals) : arrivals[i].direction = direction}) < 10
           THEN Cardinality({i \in 1..Len(arrivals) : arrivals[i].direction = direction})
           ELSE 10)

StopInfoOf(stopId, arrivals, t) ==
    <<[stop |-> [id |-> stopId,
                 routes |-> {arrivals[i].routeId : i \in 1..Len(arrivals)},
                 northArrivals |-> DirectionArrivals(arrivals, "N"),
                 southArrivals |-> DirectionArrivals(arrivals, "S")],
       timestamp |-> t \div 1000]>>

\* fetchStopArrivals(stopId): what it returns (<<>> for null) and the name of
\* the error it throws (None: it returns).  Its catch block takes every failure
\* of the request and returns null
fetchStopArrivals(stopId, upstream, stopTimes, t) ==
    [thrown |-> None,
     value |-> IF upstream = "ok"
               THEN StopInfoOf(stopId, ExtractArrivals(stopTimes, t), t)
               ELSE <<>>]

\* the route's answer for what fetchStopArrivals did
ArrivalsReply(arrivals) ==
    IF arrivals.thrown = "AbortError"
    THEN [status |-> 504, error |-> "TIMEOUT", body |-> <<>>]
    ELSE IF arrivals.thrown # None
    THEN [status |-> 503, error |-> "SERVICE_UNAVAILABLE", body |-> <<>>]
    ELSE IF arrivals.value = <<>>
    THEN [status |-> 404, error |-> "STOP_NOT_FOUND", body |-> <<>>]
    ELSE [status |-> 200, error |-> None, body |-> arrivals.value]

\* GET /api/stops/:stopId/arrivals
GetStopArrivals(stopId, upstream, stopTimes) ==
    /\ stopsQuery' = [stopId |-> stopId, upstream |-> upstream,
                      stopTimes |-> IF upstream = "ok" THEN stopTimes ELSE <<>>]
    /\ stopsReply' = ArrivalsReply(fetchStopArrivals(stopId, upstream, stopTimes, now))
    /\ UNCHANGED now

\* time passes
StopsClock(maxTicks) ==
    /\ now + StopsClockStep <= maxTicks * StopsClockStep
    /\ now' = now + StopsClockStep
    /\ UNCHANGED <<stopsQuery, stopsReply>>


(***************************************************************************)
(* frontend: hooks/useInterpolatedTrains.ts, the target position           *)
(***************************************************************************)
\* the schedule of trip 1 with the times of a short hop: leaves A at 1000 s,
\* reaches B at 1015 s
TripDataHop ==
    [id |-> 1,
     stopTimes |-> <<[stopId |-> "A", arrival |-> NoTime, departure |-> 1000],
                     [stopId |-> "B", arrival |-> 1015, departure |-> NoTime]>>]

\* a train between two stops that differ in latitude and longitude, reported
\* somewhere else, with the anchor times T0 and T1
HandMadeTrain(T0, T1) ==
    [id |-> 2, line |-> "A", direction |-> "N",
     latitude |-> 40701234, longitude |-> -73995678, timestamp |-> 100000,
     stopId |-> "B", status |-> "IN_TRANSIT",
     prevStop |-> [stopId |-> "A", latitude |-> 40700000, longitude |-> -74000000,
                   time |-> T0],
     nextStop |-> [stopId |-> "B", latitude |-> 40704000, longitude |-> -73996000,
                   time |-> T1],
     bearing |-> 90]

HandMadeTrains ==
    {HandMadeTrain(1000, 1015), HandMadeTrain(1000, 1000), HandMadeTrain(1015, 1000),
     [HandMadeTrain(1000, 1015) EXCEPT !.nextStop = NoStopTiming]}

NoTarget == [valid |-> FALSE, t |-> 0, lat |-> 0, lon |-> 0]

InterpInit ==
    /\ interpTrain = <<>>
    /\ interpServerAt = NoTime
    /\ clientTarget = NoTarget

clamp01_unclamped(elapsed, totalTime) == elapsed

\* clamp01(elapsed / totalTime), as the numerator over totalTime (times in ms)
clamp01(elapsed, totalTime) ==
    IF elapsed < 0 THEN 0 ELSE IF elapsed > totalTime THEN totalTime ELSE elapsed

\* lerp(start, end, numerator / totalTime)
lerp(start, end, numerator, totalTime) ==
    start + ((end - start) * numerator) \div totalTime

\* getTargetPosition(train) at Date.now() = t
getTargetPosition(train, t) ==
    IF train.prevStop = NoStopTiming \/ train.nextStop = NoStopTiming
    THEN [lat |-> train.latitude, lon |-> train.longitude]
    ELSE IF train.nextStop.time - train.prevStop.time <= 0
    THEN [lat |-> train.latitude, lon |-> train.longitude]
    ELSE [lat |-> lerp(train.prevStop.latitude, train.nextStop.latitude,
                       clamp01(t - train.prevStop.time * 1000,
                               (train.nextStop.time - train.prevStop.time) * 1000),
                       (train.nextStop.time - train.prevStop.time) * 1000),
          lon |-> lerp(train.prevStop.longitude, train.nextStop.longitude,
                       clamp01(t - train.prevStop.time * 1000,
                               (train.nextStop.time - train.prevStop.time) * 1000),
                       (train.nextStop.time - train.prevStop.time) * 1000)]

\* the server converts the vehicle with the schedule `tripData` now
InterpServer(tripData) ==
    /\ interpTrain' = vehicleToTrain(CHOOSE v \in Vehicles : TRUE, tripData, {"A", "B"}, now)
    /\ interpServerAt' = now
    /\ clientTarget' = NoTarget
    /\ UNCHANGED now

\* the client is given a train by another producer
InterpReceive(train) ==
    /\ interpTrain' = <<train>>
    /\ interpServerAt' = NoTime
    /\ clientTarget' = NoTarget
    /\ UNCHANGED now

\* a frame of the client: the target position of the train
InterpFrame ==
    /\ interpTrain # <<>>
    /\ clientTarget' = [valid |-> TRUE, t |-> now,
                        lat |-> getTargetPosition(interpTrain[1], now).lat,
                        lon |-> getTargetPosition(interpTrain[1], now).lon]
    /\ UNCHANGED <<now, interpTrain, interpServerAt>>

\* time passes
InterpClock(maxTicks) ==
    /\ now + InterpClockStep <= InterpStart + maxTicks * InterpClockStep
    /\ now' = now + InterpClockStep
    /\ UNCHANGED <<interpTrain, interpServerAt, clientTarget>>


(***************************************************************************)
(* Pure functions, applied to arguments drawn from bounded sets            *)
(***************************************************************************)
NoCall == <<"none">>

FnInit ==
    /\ fnCall = NoCall
    /\ fnResult = 0

(***************************************************************************)
(* bearings: position-calculator.ts calculateBearing,                      *)
(* useInterpolatedTrains.ts interpolateBearing                             *)
(***************************************************************************)
\* bearings in whole degrees
BearingSamples == {0, 1, 10, 90, 170, 180, 190, 270, 350, 359}

BearingPoints ==
    {[lat |-> lat, lon |-> lon] : lat \in {40700000, 40704000}, lon \in {-74000000, -73996000}}

\* easeOutCubic(num / den) = 1 - (1 - num / den)^3, as the numerator over den^3
easeOutCubic(num, den) == den * den * den - (den - num) * (den - num) * (den - num)

ShortestDiff_none(diff) == diff

\* if (diff > 180) diff -= 360; if (diff < -180) diff += 360
ShortestDiff(diff) ==
    IF diff > 180 THEN diff - 360 ELSE IF diff < -180 THEN diff + 360 ELSE diff

\* interpolateBearing(fromBearing, toBearing, num / den), rounded down to a degree
interpolateBearing(fromBearing, toBearing, num, den) ==
    JsRemainder(fromBearing
                + (ShortestDiff(toBearing - fromBearing) * easeOutCubic(num, den))
                    \div (den * den * den)
                + 360, 360)

CalculateBearing(from, to, raw) ==
    /\ fnCall' = <<"calculateBearing", from, to>>
    /\ fnResult' = NormalizeBearing(raw)
    /\ UNCHANGED now

InterpolateBearing(fromBearing, toBearing, num) ==
    /\ fnCall' = <<"interpolateBearing", fromBearing, toBearing, num>>
    /\ fnResult' = interpolateBearing(fromBearing, toBearing, num, ProgressSteps)
    /\ UNCHANGED now

(***************************************************************************)
(* frontend: hooks/useNearbyArrivals.ts, the departure window              *)
(***************************************************************************)
\* Date.now() of the calls, around 1000 s
LeaveNows == {999999, 1000000, 1000001}

WalkingTimes == {2, 5}

\* arrival times (s): past, and around the two ends of the window for a walk of
\* 5 minutes from 1000 s
LeaveArrivalTimes == {990, 1240, 1330, 1420, 1480, 1720}

LeaveRoutes == {"A", "C", "E"}

\* the arrivals of a direction as the backend lists them: by arrival time
DirectionLists ==
    UNION {{l \in [1..n -> [routeId : LeaveRoutes, arrivalTime : {990, 1240, 1420, 1720}]] :
                \A i \in 1..(n - 1) : l[i].arrivalTime <= l[i + 1].arrivalTime} :
           n \in 0..MaxArrivals}

\* (arrivalTimeSec - walkingTimeMin * 60 - now) in ms, now = t / 1000
LeaveInMs(arrivalTimeSec, walkingTimeMin, t) ==
    arrivalTimeSec * 1000 - walkingTimeMin * 60000 - t

getTrainSeverity_strict(arrivalTimeSec, walkingTimeMin, t) ==
    IF /\ LeaveInMs(arrivalTimeSec, walkingTimeMin, t) > IDEAL_WINDOW_MIN_MS
       /\ LeaveInMs(arrivalTimeSec, walkingTimeMin, t) <= IDEAL_WINDOW_MAX_MS
    THEN "ideal"
    ELSE IF LeaveInMs(arrivalTimeSec, walkingTimeMin, t) < IDEAL_WINDOW_MIN_MS
    THEN "too-soon"
    ELSE "long-wait"

getTrainSeverity(arrivalTimeSec, walkingTimeMin, t) ==
    IF /\ LeaveInMs(arrivalTimeSec, walkingTimeMin, t) >= IDEAL_WINDOW_MIN_MS
       /\ LeaveInMs(arrivalTimeSec, walkingTimeMin, t) <= IDEAL_WINDOW_MAX_MS
    THEN "ideal"
    ELSE IF LeaveInMs(arrivalTimeSec, walkingTimeMin, t) < IDEAL_WINDOW_MIN_MS
    THEN "too-soon"
    ELSE "long-wait"

\* the ProcessedTrain of an arrival
ProcessedTrain(arrival, walkingTimeMin, t) ==
    [routeId |-> arrival.routeId, arrivalTime |-> arrival.arrivalTime,
     leaveAtMs |-> IF LeaveInMs(arrival.arrivalTime, walkingTimeMin, t) > 0
                   THEN LeaveInMs(arrival.arrivalTime, walkingTimeMin, t) ELSE 0,
     isIdeal |-> getTrainSeverity(arrival.arrivalTime, walkingTimeMin, t) = "ideal",
     isAlternative |-> FALSE,
     severity |-> getTrainSeverity(arrival.arrivalTime, walkingTimeMin, t)]

\* processArrivals(arrivals, walkingTimeMin, now)
processArrivals(arrivals, walkingTimeMin, t) ==
    LET future == SelectSeq(arrivals, LAMBDA a : a.arrivalTime * 1000 > t)
    IN  SortByArrival([i \in 1..Len(future) |-> ProcessedTrain(future[i], walkingTimeMin, t)])

\* the routes of the trains in the order of their first train
RECURSIVE RouteOrder(_)
RouteOrder(processed) ==
    IF processed = <<>> THEN <<>>
    ELSE <<Head(processed).routeId>> \o
         RouteOrder(SelectSeq(Tail(processed),
                              LAMBDA p : p.routeId # Head(processed).routeId))

BestOfRoute_first(catchable) == IF catchable = <<>> THEN <<>> ELSE <<catchable[1]>>

\* what selectBestTrains pushes for the trains of one route
BestOfRoute(catchable) ==
    IF catchable = <<>> THEN <<>>
    ELSE IF SelectSeq(catchable, LAMBDA p : p.isIdeal) # <<>>
    THEN <<SelectSeq(catchable, LAMBDA p : p.isIdeal)[1]>>
    ELSE <<[catchable[1] EXCEPT !.isAlternative = TRUE]>>

RECURSIVE BestOfRoutes(_, _)
BestOfRoutes(processed, routes) ==
    IF routes = <<>> THEN <<>>
    ELSE BestOfRoute(SelectSeq(processed,
                        LAMBDA p : p.routeId = Head(routes) /\ p.severity # "too-soon"))
         \o BestOfRoutes(processed, Tail(routes))

\* selectBestTrains(processed)
selectBestTrains(processed) ==
    SortByArrival(BestOfRoutes(processed, RouteOrder(processed)))

GetTrainSeverity(arrivalTimeSec, walkingTimeMin, t) ==
    /\ fnCall' = <<"getTrainSeverity", arrivalTimeSec, walkingTimeMin, t>>
    /\ fnResult' = getTrainSeverity(arrivalTimeSec, walkingTimeMin, t)
    /\ UNCHANGED now

\* loadNearbyStations: the trains of one direction of a station
SelectDirection(arrivals, walkingTimeMin, t) ==
    /\ fnCall' = <<"selectBestTrains", arrivals, walkingTimeMin, t>>
    /\ fnResult' = selectBestTrains(processArrivals(arrivals, walkingTimeMin, t))
    /\ UNCHANGED now

(***************************************************************************)
(* frontend: hooks/useSpatialIndex.ts                                      *)
(* Distances are in decimetres.  The stations and the query points lie     *)
(* within 2 km of (40.7, -74.0): the cosine of their latitudes is taken as *)
(* 0.758 and the great-circle distance as the distance in the plane.       *)
(***************************************************************************)
CosLat1000 == 758

\* a station `north` and `east` micro-degrees from (40.7, -74.0)
StationAt(id, north, east) ==
    [id |-> id, latitude |-> 40700000 + north, longitude |-> -74000000 + east]

\* 300 m, 1000 m and just under 800 m to the north, just under 800 m to the
\* east, and at the point itself
StationPool ==
    {StationAt(1, 2698, 0), StationAt(2, 8993, 0), StationAt(3, 7194, 0),
     StationAt(4, 0, 9491), StationAt(5, 0, 0)}

\* parent-stations.json: a list of different stations
StationLists ==
    UNION {{l \in [1..n -> StationPool] : \A i, j \in 1..n : l[i] = l[j] => i = j} :
           n \in 0..MaxStations}

QueryPoints == {[latitude |-> 40700000, longitude |-> -74000000],
                [latitude |-> 40701349, longitude |-> -74000000]}

QueryRadii == {3000, 8000, RADIUS_DM}

SpatialInit ==
    /\ indexRef = <<>>
    /\ stationsLoad = "pending"

Abs(x) == IF x < 0 THEN -x ELSE x

\* the integer square root of x < 30000^2, by Newton's iteration from k
RECURSIVE ISqrtFrom(_, _)
ISqrtFrom(x, k) ==
    IF k * k <= x /\ (k + 1) * (k + 1) > x THEN k
    ELSE ISqrtFrom(x, (k + x \div k) \div 2)

ISqrt(x) == ISqrtFrom(x, 30000)

\* R * (lat2 - lat1) * PI / 180 with R = 6371 km: 1.112 dm for a micro-degree
NorthDm(lat1, lat2) == (Abs(lat2 - lat1) * 11120) \div 10000

EastDm(lon1, lon2) == (((Abs(lon2 - lon1) * CosLat1000) \div 1000) * 11120) \div 10000

\* haversineDistance, rounded down to a decimetre
haversineDistance(lat1, lon1, lat2, lon2) ==
    ISqrt(NorthDm(lat1, lat2) * NorthDm(lat1, lat2) + EastDm(lon1, lon2) * EastDm(lon1, lon2))

latDelta_tight(radius) == (radius * 100) \div 112

\* radiusKm / 111, in micro-degrees
latDelta(radius) == (radius * 100) \div 111

\* radiusKm / (111 * Math.cos(latitude * PI / 180)), in micro-degrees
lonDelta(radius) == (radius * 100000) \div (111 * CosLat1000)

\* RBush.search: the items whose point lies in the box, borders included
Search(index, minX, minY, maxX, maxY) ==
    SelectSeq(index, LAMBDA s : /\ s.longitude >= minX /\ s.longitude <= maxX
                                /\ s.latitude >= minY /\ s.latitude <= maxY)

\* sort((a, b) => a.distance - b.distance), the order of equal items kept
RECURSIVE SortByDistance(_, _, _)
SortByDistance(stations, latitude, longitude) ==
    IF stations = <<>> THEN <<>>
    ELSE LET rest == SortByDistance(Tail(stations), latitude, longitude)
             k == Cardinality({i \in 1..Len(rest) :
                    haversineDistance(latitude, longitude, rest[i].latitude, rest[i].longitude)
                    < haversineDistance(latitude, longitude, Head(stations).latitude,
                                        Head(stations).longitude)})
         IN  SubSeq(rest, 1, k) \o <<Head(stations)>> \o SubSeq(rest, k + 1, Len(rest))

getNearbyStations(index, latitude, longitude, radius) ==
    IF index = <<>> THEN <<>>
    ELSE SortByDistance(
            SelectSeq(Search(index[1], longitude - lonDelta(radius), latitude - latDelta(radius),
                             longitude + lonDelta(radius), latitude + latDelta(radius)),
                      LAMBDA s : haversineDistance(latitude, longitude, s.latitude, s.longitude)
                                    <= radius),
            latitude, longitude)

\* loadStations(): the list arrives and the index is built, or the fetch fails
LoadStations(ok, stationsData) ==
    /\ stationsLoad = "pending"
    /\ stationsLoad' = IF ok THEN "done" ELSE "failed"
    /\ indexRef' = IF ok THEN <<stationsData>> ELSE indexRef
    /\ fnCall' = NoCall
    /\ fnResult' = 0
    /\ UNCHANGED now

GetNearbyStations(latitude, longitude, radius) ==
    /\ fnCall' = <<"getNearbyStations", latitude, longitude, radius>>
    /\ fnResult' = getNearbyStations(indexRef, latitude, longitude, radius)
    /\ UNCHANGED <<now, indexRef, stationsLoad>>

(***************************************************************************)
(* frontend: hooks/useWalkingTime.ts                                       *)
(***************************************************************************)
\* what calculateDistance returns, in mm: nothing, next to one minute's and two
\* minutes' walk, and further
WalkingDistances ==
    {0, 1, 40000, 80466, 80467, 80468, 160933, 160934, 160935, 400000, 804700, 2000000}

calculateWalkingTime_round(distance) ==
    (2 * (distance + STATION_ENTRY_BUFFER_MIN * WALKING_SPEED_MM_PER_MIN)
        + WALKING_SPEED_MM_PER_MIN) \div (2 * WALKING_SPEED_MM_PER_MIN)

\* calculateWalkingTime, given the distance calculateDistance returned:
\* Math.ceil(distanceKm / WALKING_SPEED_KMH * 60 + STATION_ENTRY_BUFFER_MIN)
calculateWalkingTime(distance) ==
    (distance + STATION_ENTRY_BUFFER_MIN * WALKING_SPEED_MM_PER_MIN
        + WALKING_SPEED_MM_PER_MIN - 1) \div WALKING_SPEED_MM_PER_MIN

\* the walking times to two stations
CalculateWalkingTimes(d1, d2) ==
    /\ fnCall' = <<"calculateWalkingTime", d1, d2>>
    /\ fnResult' = <<calculateWalkingTime(d1), calculateWalkingTime(d2)>>
    /\ UNCHANGED now

(***************************************************************************)
(* calculateTrainPosition over vehicles, schedules and stop caches         *)
(***************************************************************************)
\* vehicles at a stop (or none) in every status; "none" is no currentStatus
PositionVehicles ==
    {VehicleAt(7, "A", stopId, currentStatus) :
        stopId \in {"", "A", "B", "X"},
        currentStatus \in {"STOPPED_AT", "INCOMING_AT", "IN_TRANSIT_TO", "none"}}

StopTimeAt(stopId, arrival, departure) ==
    [stopId |-> stopId, arrival |-> arrival, departure |-> departure]

\* schedules from a first stop (A, or X without coordinates) to B, the times
\* absent, 0 or in either order, alone or followed by a stop at A or X; the
\* empty schedule, and no schedule
PositionTripData ==
    {NoTripData, [id |-> 1, stopTimes |-> <<>>]}
    \cup {[id |-> 1,
           stopTimes |-> <<StopTimeAt(first, prevArrival, prevDeparture),
                           StopTimeAt("B", arrival, NoTime)>> \o rest] :
            first \in {"A", "X"},
            prevArrival \in {NoTime, 360},
            prevDeparture \in {NoTime, 0, 370, 500},
            arrival \in {NoTime, 0, 430},
            rest \in {<<>>, <<StopTimeAt("A", 600, NoTime)>>, <<StopTimeAt("X", 600, NoTime)>>}}

PositionNows == {360000, 400000, 460000}

CalculateTrainPosition(vehicle, tripData, cache, t) ==
    /\ fnCall' = <<"calculateTrainPosition", vehicle, tripData, cache>>
    /\ fnResult' = calculateTrainPosition(vehicle, tripData, cache, t)
    /\ UNCHANGED now

(***************************************************************************)
(* frontend: hooks/useInterpolatedTrains.ts, the animation                 *)
(***************************************************************************)
\* the frames are a quarter of a transition apart, and the first one comes when
\* the hand-made trains have left their previous stop
AnimClockStep == POSITION_TRANSITION_DURATION_MS \div ProgressSteps

AnimStart == InterpStart + 4 * InterpClockStep

\* the train on the segment from `prevStop` to `nextStop`
OnSegment(train, prevStop, nextStop, bearing) ==
    [train EXCEPT !.prevStop = prevStop, !.nextStop = nextStop, !.bearing = bearing]

\* the lists of trains the store can hold: one train on the segment A-B, on the
\* segment B-C, or stopped at B without timing anchors
AnimTrainLists ==
    {<<>>,
     <<HandMadeTrain(1000, 1015)>>,
     <<OnSegment(HandMadeTrain(1000, 1015),
                 [stopId |-> "B", latitude |-> 40704000, longitude |-> -73996000,
                  time |-> 1000],
                 [stopId |-> "C", latitude |-> 40708000, longitude |-> -73992000,
                  time |-> 1015],
                 45)>>,
     <<[OnSegment(HandMadeTrain(1000, 1015), NoStopTiming, NoStopTiming, NoBearing)
            EXCEPT !.status = "AT_STOP", !.latitude = 40704000, !.longitude = -73996000]>>}

\* `trains` are the trains of the frame before, `purged` the ids whose animation
\* state has been deleted so far
NoFrame ==
    [valid |-> FALSE, at |-> 0, states |-> <<>>, rendered |-> <<>>, trains |-> <<>>,
     purged |-> {}]

AnimInit ==
    /\ animationStates = <<>>
    /\ interpolatedTrains = <<>>
    /\ lastFrame = NoFrame

\* the state of a train seen for the first time; 0 for no stoppedSince,
\* NoBearing for no bearing
NewAnimationState(train, target) ==
    [fromLat |-> target.lat, fromLon |-> target.lon, transitionStart |-> 0,
     prevStopId |-> train.prevStop.stopId, nextStopId |-> train.nextStop.stopId,
     lastRenderedLat |-> target.lat, lastRenderedLon |-> target.lon,
     fromBearing |-> NoBearing, bearingTransitionStart |-> 0,
     lastRenderedBearing |-> NoBearing, stoppedSince |-> 0]

segmentChanged(state, train) ==
    \/ state.prevStopId # train.prevStop.stopId
    \/ state.nextStopId # train.nextStop.stopId

SegmentStart_atTarget(state, train, target, t) ==
    [state EXCEPT !.fromLat = target.lat, !.fromLon = target.lon,
                  !.transitionStart = t,
                  !.prevStopId = train.prevStop.stopId,
                  !.nextStopId = train.nextStop.stopId]

\* the segment changed: a transition from the last rendered position starts
SegmentStart(state, train, target, t) ==
    [state EXCEPT !.fromLat = state.lastRenderedLat, !.fromLon = state.lastRenderedLon,
                  !.transitionStart = t,
                  !.prevStopId = train.prevStop.stopId,
                  !.nextStopId = train.nextStop.stopId]

\* the animation state of the train after "Initialize or update animation state"
TrackedState(states, train, target, t) ==
    IF train.id \notin DOMAIN states THEN NewAnimationState(train, target)
    ELSE IF segmentChanged(states[train.id], train)
    THEN SegmentStart(states[train.id], train, target, t)
    ELSE states[train.id]

\* transitionStart > 0 and clamp01(transitionElapsed / duration) < 1
InTransition(start, t, duration) ==
    start > 0 /\ clamp01(t - start, duration) < duration

\* lerp(from, to, easeOutCubic(elapsed / duration)), elapsed a number of frames
EasedLerp(from, to, elapsed) ==
    from + ((to - from) * easeOutCubic(elapsed \div AnimClockStep, ProgressSteps))
                \div (ProgressSteps * ProgressSteps * ProgressSteps)

\* the final position of the frame
FinalPosition(state, target, t) ==
    IF InTransition(state.transitionStart, t, POSITION_TRANSITION_DURATION_MS)
    THEN [lat |-> EasedLerp(state.fromLat, target.lat,
                            clamp01(t - state.transitionStart, POSITION_TRANSITION_DURATION_MS)),
          lon |-> EasedLerp(state.fromLon, target.lon,
                            clamp01(t - state.transitionStart, POSITION_TRANSITION_DURATION_MS))]
    ELSE target

\* the state after the position of the frame is calculated
AfterPosition(state, target, t) ==
    [state EXCEPT
        !.transitionStart =
            IF InTransition(@, t, POSITION_TRANSITION_DURATION_MS) THEN @ ELSE 0,
        !.lastRenderedLat = FinalPosition(state, target, t).lat,
        !.lastRenderedLon = FinalPosition(state, target, t).lon]

\* a bearing transition starts when the bearing moved by more than 1 degree
\* and none is running
BearingStart(state, train, t) ==
    IF /\ train.bearing # NoBearing
       /\ state.lastRenderedBearing # NoBearing
       /\ Abs(state.lastRenderedBearing - train.bearing) > 1
       /\ state.bearingTransitionStart = 0
    THEN [state EXCEPT !.fromBearing = state.lastRenderedBearing,
                       !.bearingTransitionStart = t]
    ELSE state

Turning(state, t) ==
    /\ state.fromBearing # NoBearing
    /\ InTransition(state.bearingTransitionStart, t, BEARING_TRANSITION_DURATION_MS)

\* the final bearing of the frame, NoBearing for null
FinalBearing(state, train, t) ==
    IF train.bearing = NoBearing THEN NoBearing
    ELSE IF Turning(state, t)
    THEN interpolateBearing(state.fromBearing, train.bearing,
            clamp01(t - state.bearingTransitionStart, BEARING_TRANSITION_DURATION_MS)
                \div AnimClockStep,
            ProgressSteps)
    ELSE train.bearing

\* the state after the bearing of the frame is calculated
AfterBearing(state, train, t) ==
    IF train.bearing = NoBearing THEN state
    ELSE [state EXCEPT
            !.bearingTransitionStart =
                IF @ > 0 /\ state.fromBearing # NoBearing /\ ~Turning(state, t)
                THEN 0 ELSE @,
            !.lastRenderedBearing = FinalBearing(state, train, t)]

\* 1000 * cos(2 * pi * k / 20) for k = 0 .. 19
PulseCosine ==
    <<1000, 951, 809, 588, 309, 0, -309, -588, -809, -951,
      -1000, -951, -809, -588, -309, 0, 309, 588, 809, 951>>

\* calculatePulseScale(now, stoppedSince) in thousandths, the phase to a
\* twentieth of the period of 1500 ms:
\* (sin(2 pi phase - pi / 2) + 1) / 2 is (1 - cos(2 pi phase)) / 2
calculatePulseScale(t, stoppedSince) ==
    1000 + (75 * (1000 - PulseCosine[(((t - stoppedSince) % 1500) * 20) \div 1500 + 1]))
                \div 1000

AfterPulse_keepAnchor(state, train, t) ==
    [state EXCEPT !.stoppedSince = IF train.status = "AT_STOP" /\ @ = 0 THEN t ELSE @]

\* the state after the pulse of the frame is calculated
AfterPulse(state, train, t) ==
    IF train.status = "AT_STOP"
    THEN [state EXCEPT !.stoppedSince = IF @ = 0 THEN t ELSE @]
    ELSE [state EXCEPT !.stoppedSince = 0]

\* the animation state of the train after the frame
AnimatedState(states, train, t) ==
    AfterPulse(
        AfterBearing(
            BearingStart(
                AfterPosition(TrackedState(states, train, getTargetPosition(train, t), t),
                              getTargetPosition(train, t), t),
                train, t),
            train, t),
        train, t)

\* the InterpolatedTrain of the frame, from the state after the frame
Rendered(state, train, t) ==
    [id |-> train.id,
     status |-> train.status,
     latitude |-> state.lastRenderedLat,
     longitude |-> state.lastRenderedLon,
     bearing |-> IF train.bearing = NoBearing THEN NoBearing ELSE state.lastRenderedBearing,
     scale |-> IF train.status = "AT_STOP"
               THEN calculatePulseScale(t, state.stoppedSince) ELSE 1000,
     hasBearing |-> train.bearing # NoBearing]

\* calculatePositions() at Date.now() = now, over trains with distinct ids
calculatePositions(trains, states, purged) ==
    /\ animationStates' =
            [id \in DOMAIN states \cup {trains[i].id : i \in 1..Len(trains)} |->
                IF \E i \in 1..Len(trains) : trains[i].id = id
                THEN AnimatedState(states,
                        trains[CHOOSE i \in 1..Len(trains) : trains[i].id = id], now)
                ELSE states[id]]
    /\ interpolatedTrains' =
            [i \in 1..Len(trains) |->
                Rendered(AnimatedState(states, trains[i], now), trains[i], now)]
    /\ lastFrame' = [valid |-> TRUE, at |-> now, states |-> states,
                     rendered |-> interpolatedTrains, trains |-> interpTrain,
                     purged |-> purged]

CleanUp_keep(states, trains) == states

\* the cleanup effect: the states of the ids that are not among the trains are deleted
CleanUp(states, trains) ==
    [id \in DOMAIN states \cap {trains[i].id : i \in 1..Len(trains)} |-> states[id]]

\* the store is given new trains, at most once between two frames: the states of
\* the trains that are gone are deleted, and the positions are calculated at once
AnimSetTrains(trains) ==
    /\ ~(lastFrame.valid /\ lastFrame.at = now)
    /\ interpTrain' = trains
    /\ interpServerAt' = NoTime
    /\ clientTarget' = NoTarget
    /\ IF trains = <<>>
       THEN /\ animationStates' = CleanUp(animationStates, trains)
            /\ interpolatedTrains' = <<>>
            /\ lastFrame' = [NoFrame EXCEPT !.purged =
                                lastFrame.purged \cup DOMAIN animationStates]
       ELSE calculatePositions(trains, CleanUp(animationStates, trains),
                lastFrame.purged \cup (DOMAIN animationStates
                                            \ {trains[i].id : i \in 1..Len(trains)}))
    /\ UNCHANGED now

\* an animation frame
Animate ==
    /\ interpTrain # <<>>
    /\ calculatePositions(interpTrain, animationStates, lastFrame.purged)
    /\ UNCHANGED <<now, interpVars>>

\* time passes, by one frame: while there are trains, requestAnimationFrame
\* has called animate()
AnimClock(maxTicks) ==
    /\ now < AnimStart + maxTicks * AnimClockStep
    /\ interpTrain = <<>> \/ (lastFrame.valid /\ lastFrame.at = now)
    /\ now' = now + AnimClockStep
    /\ UNCHANGED <<interpVars, animVars>>

(***************************************************************************)
(* transiter/poller.ts: startPolling() before its initial poll             *)
(***************************************************************************)
StartupInit ==
    /\ startup = "idle"
    /\ healthAttempts = 0
    /\ healthCheckResult = "pending"
    /\ preload = "idle"
    /\ nextId = ""

\* startPolling() is called: the health check loop and
\* preloadStopCoordinates() start, in parallel
StartupBegins ==
    /\ startup = "idle"
    /\ ~transiterPollInterval
    /\ startup' = "waiting"
    /\ preload' = "loading"
    /\ UNCHANGED <<now, transiterVars, healthAttempts, healthCheckResult, nextId>>

\* checkTransiterHealth() returns, after 5 s at most: `healthy` ends the loop,
\* anything else counts an attempt and sleeps 2 s; the loop ends after 30 attempts
HealthCheck(healthy) ==
    /\ startup = "waiting"
    /\ healthCheckResult = "pending"
    /\ healthAttempts < MAX_HEALTH_ATTEMPTS
    /\ IF healthy
       THEN healthCheckResult' = "healthy" /\ healthAttempts' = healthAttempts
       ELSE /\ healthAttempts' = healthAttempts + 1
            /\ healthCheckResult' =
                    IF healthAttempts + 1 < MAX_HEALTH_ATTEMPTS THEN "pending" ELSE "gaveUp"
    /\ UNCHANGED <<now, transiterVars, startup, preload, nextId>>

\* the ids by which the upstream names a next page of stops
PageIds == {"p1", "p2"}

\* the answers of the upstream to the request of a page of stops: an error or
\* a status that is not ok, the last page, or a page that names a next page
PageAnswers == {"failed", "last"} \cup PageIds

\* a request of preloadStopCoordinates() returns: the stops of a page enter the
\* cache, and the loop goes on while the page names a next one
PreloadPage(answer, stops) ==
    /\ preload = "loading"
    /\ stopCache' = IF answer = "failed" THEN stopCache ELSE stopCache \cup stops
    /\ preload' = IF answer \in PageIds THEN "loading" ELSE "done"
    /\ nextId' = IF answer \in PageIds THEN answer ELSE ""
    /\ UNCHANGED <<now, currentTrains, lastUpdateHash, lastPollTime, isTransiterHealthy,
                   transiterPollInterval, timerDue, tripCache, cycles, clients, lastDone,
                   published, startup, healthAttempts, healthCheckResult>>

\* Promise.all() of the health check loop and of the preload resolves:
\* startPolling() goes on to its initial poll
StartupProceeds ==
    /\ startup = "waiting"
    /\ healthCheckResult # "pending"
    /\ preload = "done"
    /\ startup' = "started"
    /\ TransiterStartPolling({}, 1)
    /\ UNCHANGED <<healthAttempts, healthCheckResult, preload, nextId>>

\* the lists of trains of a store with two train ids: train 2 on the segment A-B
\* or B-C, train 3 on the segment A-B with other anchor times
LiveTrainLists ==
    {<<>>,
     <<HandMadeTrain(1000, 1015)>>,
     <<OnSegment(HandMadeTrain(1000, 1015),
                 [stopId |-> "B", latitude |-> 40704000, longitude |-> -73996000,
                  time |-> 1000],
                 [stopId |-> "C", latitude |-> 40708000, longitude |-> -73992000,
                  time |-> 1015],
                 45)>>,
     <<[HandMadeTrain(1000, 1030) EXCEPT !.id = 3]>>,
     <<HandMadeTrain(1000, 1015), [HandMadeTrain(1000, 1030) EXCEPT !.id = 3]>>,
     <<[HandMadeTrain(1000, 1030) EXCEPT !.id = 3],
       OnSegment(HandMadeTrain(1000, 1015),
                 [stopId |-> "B", latitude |-> 40704000, longitude |-> -73996000,
                  time |-> 1000],
                 [stopId |-> "C", latitude |-> 40708000, longitude |-> -73992000,
                  time |-> 1015],
                 45)>>}

\* the lists of trains of a store with one train at stop B, stopped or not
PulseTrainLists ==
    {<<>>,
     <<[OnSegment(HandMadeTrain(1000, 1015), NoStopTiming, NoStopTiming, NoBearing)
            EXCEPT !.status = "AT_STOP", !.latitude = 40704000, !.longitude = -73996000]>>,
     <<[OnSegment(HandMadeTrain(1000, 1015), NoStopTiming, NoStopTiming, NoBearing)
            EXCEPT !.status = "INCOMING", !.latitude = 40704000, !.longitude = -73996000]>>}

\* the lists of trains of a store with one train at stop B that reports the
\* bearing 0, 90 or 270
TurnTrainLists ==
    {<<[OnSegment(HandMadeTrain(1000, 1015), NoStopTiming, NoStopTiming, bearing)
            EXCEPT !.latitude = 40704000, !.longitude = -73996000]>> :
        bearing \in {0, 90, 270}}

(***************************************************************************)
(* useNearbyArrivals (unnamed/part_011): the arrival cache, the debounced  *)
(* load of the nearby stations, and retryStation.  The response of a       *)
(* request is identified by the id of the request.                         *)
(***************************************************************************)
CACHE_TTL_MS == 30000
LOCATION_DEBOUNCE_MS == 500
ARRIVALS_TIMEOUT_MS == 5000

NearbyStart == ClientStart

NearbyLocations == {"L1", "L2"}

NearbyStationIds == {"A", "B"}

\* getNearbyStations(location, RADIUS_KM) with the index loaded
NearbyOf(location) == IF location = "L1" THEN {"A"} ELSE {"A", "B"}

StationRank(stopId) == IF stopId = "A" THEN 1 ELSE 2

NoArrivalsEntry == [exists |-> FALSE, data |-> 0, timestamp |-> 0]

NoNearbyLog == [calls |-> {}, response |-> <<>>, started |-> <<>>]

NearbyInit ==
    /\ userLocation = None
    /\ debounceTimerRef = NoTime
    /\ cacheRef = [s \in NearbyStationIds |-> NoArrivalsEntry]
    /\ nearbyStations = [load |-> 0, entries |-> <<>>]
    /\ nearbyLoads = {}
    /\ nearbyRequests = {}
    /\ nearbyIssued = [mounted |-> FALSE, loads |-> 0, requests |-> 0, ticks |-> 0]
    /\ requestedAt = [s \in NearbyStationIds |-> NoTime]
    /\ nearbyLog = NoNearbyLog

\* getCachedArrivals(stopId): the data of the entry, 0 for null
getCachedArrivals(cache, stopId, t) ==
    IF cache[stopId].exists /\ t - cache[stopId].timestamp <= CACHE_TTL_MS
    THEN cache[stopId].data
    ELSE 0

\* the cache after getCachedArrivals() has been called for the stations
AfterLookup(cache, stopIds, t) ==
    [s \in NearbyStationIds |->
        IF s \in stopIds /\ cache[s].exists /\ t - cache[s].timestamp > CACHE_TTL_MS
        THEN NoArrivalsEntry
        ELSE cache[s]]

\* the stations for which fetchStationArrivals() sends a request
Missed(cache, stopIds, t) == {s \in stopIds : getCachedArrivals(cache, s, t) = 0}

\* the id of the request sent for a station of `missed`
RequestId(missed, stopId) ==
    nearbyIssued.requests + Cardinality({m \in missed : StationRank(m) <= StationRank(stopId)})

\* the synchronous part of fetchStationArrivals() for the stations, on behalf
\* of a load (0 for retryStation)
FetchStationArrivals(stopIds, load) ==
    /\ cacheRef' = AfterLookup(cacheRef, stopIds, now)
    /\ nearbyRequests' = nearbyRequests \cup
            {[id |-> RequestId(Missed(cacheRef, stopIds, now), s), stopId |-> s,
              load |-> load, startedAt |-> now] : s \in Missed(cacheRef, stopIds, now)}
    /\ requestedAt' = [s \in NearbyStationIds |->
                            IF s \in Missed(cacheRef, stopIds, now) THEN now
                            ELSE requestedAt[s]]
    /\ nearbyLog' = [calls |-> {[stopId |-> s, entry |-> cacheRef[s],
                                 requested |-> s \in Missed(cacheRef, stopIds, now),
                                 previous |-> requestedAt[s]] : s \in stopIds},
                     response |-> <<>>,
                     started |-> IF load = 0 THEN <<>>
                                 ELSE <<[load |-> load, due |-> debounceTimerRef]>>]

\* an entry of `stations`: the response shown, 0 with the error "Unable to
\* load trains"
StationEntry(data) == [data |-> data, error |-> data = 0]

\* the component mounts, or the user location changes: the effect clears the
\* debounce timer and sets a new one
NearbyMount ==
    /\ ~nearbyIssued.mounted
    /\ nearbyIssued' = [nearbyIssued EXCEPT !.mounted = TRUE]
    /\ debounceTimerRef' = now + LOCATION_DEBOUNCE_MS
    /\ nearbyLog' = NoNearbyLog
    /\ UNCHANGED <<now, userLocation, cacheRef, nearbyStations, nearbyLoads,
                   nearbyRequests, requestedAt>>

SetUserLocation(location) ==
    /\ nearbyIssued.mounted
    /\ location # userLocation
    /\ userLocation' = location
    /\ debounceTimerRef' = now + LOCATION_DEBOUNCE_MS
    /\ nearbyLog' = NoNearbyLog
    /\ UNCHANGED <<now, cacheRef, nearbyStations, nearbyLoads, nearbyRequests,
                   nearbyIssued, requestedAt>>

\* the debounce timer fires: loadNearbyStations() up to its await
LoadNearbyStations ==
    /\ debounceTimerRef # NoTime
    /\ now >= debounceTimerRef
    /\ nearbyIssued.loads < MaxLoads
    /\ debounceTimerRef' = NoTime
    /\ UNCHANGED <<now, userLocation>>
    /\ IF userLocation = None
       THEN /\ nearbyStations' = [load |-> nearbyIssued.loads + 1, entries |-> <<>>]
            /\ nearbyIssued' = [nearbyIssued EXCEPT !.loads = @ + 1]
            /\ nearbyLog' = [NoNearbyLog EXCEPT
                    !.started = <<[load |-> nearbyIssued.loads + 1, due |-> debounceTimerRef]>>]
            /\ UNCHANGED <<cacheRef, nearbyLoads, nearbyRequests, requestedAt>>
       ELSE /\ nearbyIssued.requests + Cardinality(NearbyOf(userLocation)) <= MaxRequestsNearby
            /\ FetchStationArrivals(NearbyOf(userLocation), nearbyIssued.loads + 1)
            /\ nearbyIssued' =
                    [nearbyIssued EXCEPT
                        !.loads = @ + 1,
                        !.requests = @ + Cardinality(Missed(cacheRef, NearbyOf(userLocation), now))]
            /\ IF Missed(cacheRef, NearbyOf(userLocation), now) = {}
               THEN /\ nearbyStations' =
                            [load |-> nearbyIssued.loads + 1,
                             entries |-> [s \in NearbyOf(userLocation) |->
                                            StationEntry(getCachedArrivals(cacheRef, s, now))]]
                    /\ UNCHANGED nearbyLoads
               ELSE /\ nearbyLoads' = nearbyLoads \cup
                            {[id |-> nearbyIssued.loads + 1,
                              results |-> [s \in NearbyOf(userLocation) |->
                                    IF s \in Missed(cacheRef, NearbyOf(userLocation), now)
                                    THEN NoTime
                                    ELSE getCachedArrivals(cacheRef, s, now)]]}
                    /\ UNCHANGED nearbyStations

\* retryStation(stopId) up to its await
RetryStation(stopId) ==
    /\ nearbyIssued.mounted
    /\ stopId \in DOMAIN nearbyStations.entries
    /\ userLocation # None
    /\ nearbyIssued.requests < MaxRequestsNearby
    /\ FetchStationArrivals({stopId}, 0)
    /\ nearbyIssued' = [nearbyIssued EXCEPT
                            !.requests = @ + Cardinality(Missed(cacheRef, {stopId}, now))]
    /\ nearbyStations' =
            IF Missed(cacheRef, {stopId}, now) = {}
            THEN [nearbyStations EXCEPT
                    !.entries[stopId] = StationEntry(getCachedArrivals(cacheRef, stopId, now))]
            ELSE nearbyStations
    /\ UNCHANGED <<now, userLocation, debounceTimerRef, nearbyLoads>>

\* the load of a request, with the result of the request filled in
LoadWith(load, stopId, data) == [load EXCEPT !.results[stopId] = data]

LoadDone(load) == \A s \in DOMAIN load.results : load.results[s] # NoTime

\* setStations of a load that has all its results, guarded by nothing
SetStations(load) ==
    [load |-> load.id, entries |-> [s \in DOMAIN load.results |-> StationEntry(load.results[s])]]

\* the response of request r arrives (ok), or the request fails or times out:
\* the rest of fetchStationArrivals(), then of the load or retry that awaited it
ArrivalsAnswered(r, ok) ==
    /\ r \in nearbyRequests
    /\ nearbyRequests' = nearbyRequests \ {r}
    /\ cacheRef' = IF ok
                   THEN [cacheRef EXCEPT ![r.stopId] =
                            [exists |-> TRUE, data |-> r.id, timestamp |-> now]]
                   ELSE cacheRef
    /\ nearbyLog' = [calls |-> {},
                     response |-> <<[request |-> r, ok |-> ok, cache |-> cacheRef,
                                     shown |-> nearbyStations.load]>>,
                     started |-> <<>>]
    /\ IF r.load = 0
       THEN /\ nearbyStations' =
                    IF ok /\ r.stopId \in DOMAIN nearbyStations.entries
                    THEN [nearbyStations EXCEPT !.entries[r.stopId] = StationEntry(r.id)]
                    ELSE nearbyStations
            /\ UNCHANGED nearbyLoads
       ELSE \E load \in nearbyLoads :
            /\ load.id = r.load
            /\ IF LoadDone(LoadWith(load, r.stopId, IF ok THEN r.id ELSE 0))
               THEN /\ nearbyLoads' = nearbyLoads \ {load}
                    /\ nearbyStations' =
                            SetStations(LoadWith(load, r.stopId, IF ok THEN r.id ELSE 0))
               ELSE /\ nearbyLoads' = (nearbyLoads \ {load}) \cup
                            {LoadWith(load, r.stopId, IF ok THEN r.id ELSE 0)}
                    /\ UNCHANGED nearbyStations
    /\ requestedAt' =
            IF ~ok /\ requestedAt[r.stopId] = r.startedAt
                   /\ \A q \in nearbyRequests \ {r} :
                            ~(q.stopId = r.stopId /\ q.startedAt = r.startedAt)
            THEN [requestedAt EXCEPT ![r.stopId] = NoTime]
            ELSE requestedAt
    /\ UNCHANGED <<now, userLocation, debounceTimerRef, nearbyIssued>>

\* time passes; a request is answered or aborted within ARRIVALS_TIMEOUT_MS
NearbyClock(step, maxTicks) ==
    /\ nearbyIssued.mounted
    /\ nearbyIssued.ticks < maxTicks
    /\ \A r \in nearbyRequests : now + step <= r.startedAt + ARRIVALS_TIMEOUT_MS
    /\ now' = now + step
    /\ nearbyIssued' = [nearbyIssued EXCEPT !.ticks = @ + 1]
    /\ nearbyLog' = NoNearbyLog
    /\ UNCHANGED <<userLocation, debounceTimerRef, cacheRef, nearbyStations, nearbyLoads,
                   nearbyRequests, requestedAt>>

(***************************************************************************)
(* feed-parser.ts parseFeed and TrainCache.updateFromFeed: the trains of   *)
(* successive messages of the feeds                                        *)
(***************************************************************************)
\* the route ids of the vehicles of a feed: parseFeed passes on whatever
\* trip.routeId holds; "H" is a route id that the lines of no feed list
FeedRouteIds(feedId) == IF feedId = "ace" THEN {"A", "H"} ELSE {"G"}

\* the vehicle ids of a feed
FeedVehicleIds(feedId) == IF feedId = "ace" THEN {1, 2} ELSE {3}

\* the entities of a message with a vehicle; "" for no routeId
FeedEntities(feedId) ==
    [id : FeedVehicleIds(feedId), routeId : FeedRouteIds(feedId) \cup {""}]

\* the messages of a feed: entities with distinct vehicle ids
FeedMessages(feedId) ==
    UNION {{m \in [1..n -> FeedEntities(feedId)] :
                \A i, j \in 1..n : m[i].id = m[j].id => i = j} : n \in 0..MaxEntities}

\* parseFeed(buffer, feedId) for vehicles at a known stop
RECURSIVE parseFeed(_, _, _)
parseFeed(entities, feedId, t) ==
    IF entities = <<>> THEN <<>>
    ELSE (IF Head(entities).routeId = "" THEN <<>>
          ELSE <<[id |-> Head(entities).id, line |-> Head(entities).routeId,
                  latitude |-> 40700000, longitude |-> -74000000, timestamp |-> t]>>)
         \o parseFeed(Tail(entities), feedId, t)

\* the feed whose update set each train of the map last, before any call
NoSetter == [id \in FeedVehicleIds("ace") \cup FeedVehicleIds("g") |-> None]

\* fetchFeed's parseFeed and trainCache.updateFromFeed for a message of a feed
UpdateFromFeed(feedId, entities) ==
    /\ trainCache' = updateFromFeed(trainCache, feedId, parseFeed(entities, feedId, now), now)
    /\ fnCall' = <<"updateFromFeed", feedId, parseFeed(entities, feedId, now)>>
    /\ fnResult' = [id \in DOMAIN NoSetter |->
                        IF \E i \in 1..Len(entities) :
                                entities[i].id = id /\ entities[i].routeId # ""
                        THEN feedId
                        ELSE IF fnCall = NoCall THEN None ELSE fnResult[id]]
    /\ UNCHANGED <<now, circuitBreakers, pollInterval, toStart, startingCycle, attempts,
                   onDataChangedFired, consecutiveFailures, lastFailureAt, halfOpenGrants,
                   lastFetch>>

\* the step of the feed poller's clock: half a recovery timeout, two poll intervals
FeedClockStep == recoveryTimeoutMs \div 2

\* time passes
FeedClock(maxTicks) ==
    /\ toStart = <<>>
    /\ now + FeedClockStep <= maxTicks * FeedClockStep
    /\ now' = now + FeedClockStep
    /\ UNCHANGED feedVars

FeedNext(maxInFlight, maxTicks) ==
    \/ StartPolling(maxInFlight) /\ UNCHANGED notFeed
    \/ PollTimer(maxInFlight) /\ UNCHANGED notFeed
    \/ StopPolling /\ UNCHANGED notFeed
    \/ FetchFeedBegin /\ UNCHANGED notFeed
    \/ \E a \in attempts : \E ts \in FeedTimestamps :
            \E r \in ParsedFeedResults(a.feed, ts * 1000) :
                FetchFeedSuccess(a, r, ts * 1000) /\ UNCHANGED notFeed
    \/ \E a \in attempts : FetchFeedFailure(a) /\ UNCHANGED notFeed
    \/ GetCircuitBreakerStatus /\ UNCHANGED notFeed
    \/ FeedClock(maxTicks) /\ UNCHANGED notFeed

\* one feed, to follow one circuit breaker through overlapping poll cycles
InitBreaker ==
    /\ now = 0
    /\ FeedInit({"ace"})
    /\ TransiterInit
    /\ ClientInit
    /\ ArrivalsInit
    /\ StopsInit
    /\ InterpInit
    /\ FnInit
    /\ SpatialInit
    /\ AnimInit
    /\ StartupInit
    /\ NearbyInit

NextBreaker == FeedNext(MaxInFlight, MaxTicks)

SpecBreaker == InitBreaker /\ [][NextBreaker]_vars

\* two feeds over the shared train cache
InitFeeds ==
    /\ now = 0
    /\ FeedInit(FeedIds)
    /\ TransiterInit
    /\ ClientInit
    /\ ArrivalsInit
    /\ StopsInit
    /\ InterpInit
    /\ FnInit
    /\ SpatialInit
    /\ AnimInit
    /\ StartupInit
    /\ NearbyInit

NextFeeds == FeedNext(MaxInFlightFeeds, MaxTicksFeeds)

SpecFeeds == InitFeeds /\ [][NextFeeds]_vars

\* the Transiter poller with its readers
InitTransiter ==
    /\ now = TransiterStart
    /\ FeedInit({})
    /\ TransiterInit
    /\ ClientInit
    /\ ArrivalsInit
    /\ StopsInit
    /\ InterpInit
    /\ FnInit
    /\ SpatialInit
    /\ AnimInit
    /\ StartupInit
    /\ NearbyInit

\* what the trip requests of a poll() call can return
TripResponseMaps ==
    {responses \in UNION {[D -> UNION {TripResponses(id) : id \in TripIds}] :
                                D \in SUBSET TripIds} :
        \A id \in DOMAIN responses : responses[id] \in TripResponses(id)}

\* the Transiter poller where no page request and no write fails
NextTransiter ==
    \/ \E loaded \in PreloadResults :
            TransiterStartPolling(loaded, MaxInFlightTransiter) /\ UNCHANGED notTransiter
    \/ TransiterPollTimer(MaxInFlightTransiter) /\ UNCHANGED notTransiter
    \/ TransiterStopPolling /\ UNCHANGED notTransiter
    \/ \E i \in 1..Len(cycles) : \E vehicles \in VehicleLists :
            VehiclesFetched(i, vehicles, FALSE, NoWrite) /\ UNCHANGED notTransiter
    \/ \E i \in 1..Len(cycles) : \E responses \in TripResponseMaps :
            TripsFetched(i, responses, NoWrite) /\ UNCHANGED notTransiter
    \/ \E c \in 1..MaxClientsTransiter : StreamConnect(c) /\ UNCHANGED notTransiter
    \/ \E c \in 1..MaxClientsTransiter : StreamClose(c) /\ UNCHANGED notTransiter
    \/ GetTrains /\ UNCHANGED notTransiter
    \/ TransiterClock(MaxTicksTransiter) /\ UNCHANGED notTransiter

SpecTransiter == InitTransiter /\ [][NextTransiter]_vars

\* the Transiter poller with the stream's clients, where page requests and
\* writes can fail
NextStream ==
    \/ \E loaded \in PreloadResults :
            TransiterStartPolling(loaded, MaxInFlightStream) /\ UNCHANGED notTransiter
    \/ TransiterPollTimer(MaxInFlightStream) /\ UNCHANGED notTransiter
    \/ \E i \in 1..Len(cycles) : \E vehicles \in VehicleLists :
            \E failed \in BOOLEAN : \E w \in WriteOutcomes(MaxClients) :
                VehiclesFetched(i, vehicles, failed, w) /\ UNCHANGED notTransiter
    \/ \E i \in 1..Len(cycles) : \E responses \in TripResponseMaps :
            \E w \in WriteOutcomes(MaxClients) :
                TripsFetched(i, responses, w) /\ UNCHANGED notTransiter
    \/ \E c \in 1..MaxClients : StreamConnect(c) /\ UNCHANGED notTransiter
    \/ \E c \in 1..MaxClients : StreamClose(c) /\ UNCHANGED notTransiter
    \/ \E w \in WriteOutcomes(MaxClients) : broadcastHeartbeat(w) /\ UNCHANGED notTransiter
    \/ GetTrains /\ UNCHANGED notTransiter
    \/ GetStatus /\ UNCHANGED notTransiter
    \/ TransiterClock(MaxTicksStream) /\ UNCHANGED notTransiter

SpecStream == InitTransiter /\ [][NextStream]_vars

\* the stream client
InitClient ==
    /\ now = ClientStart
    /\ FeedInit({})
    /\ TransiterInit
    /\ ClientInit
    /\ ArrivalsInit
    /\ StopsInit
    /\ InterpInit
    /\ FnInit
    /\ SpatialInit
    /\ AnimInit
    /\ StartupInit
    /\ NearbyInit

NextClient ==
    \/ FetchCachedTrains /\ UNCHANGED notClient
    \/ \E ok \in BOOLEAN : \E payload \in StreamPayloads :
            CachedTrainsFetched(ok, payload) /\ UNCHANGED notClient
    \/ OnOpen /\ UNCHANGED notClient
    \/ \E payload \in StreamPayloads : OnTrains(payload) /\ UNCHANGED notClient
    \/ OnHeartbeat /\ UNCHANGED notClient
    \/ OnError(MaxErrors) /\ UNCHANGED notClient
    \/ RetryTimer /\ UNCHANGED notClient
    \/ Unmount /\ UNCHANGED notClient
    \/ ClientClock(MaxTicksClient) /\ UNCHANGED notClient

SpecClient == InitClient /\ [][NextClient]_vars

\* the arrivals panel
InitArrivals ==
    /\ now = 0
    /\ FeedInit({})
    /\ TransiterInit
    /\ ClientInit
    /\ ArrivalsInit
    /\ StopsInit
    /\ InterpInit
    /\ FnInit
    /\ SpatialInit
    /\ AnimInit
    /\ StartupInit
    /\ NearbyInit

NextArrivals ==
    \/ \E stopId \in StopIds : SelectStop(stopId, MaxRequests) /\ UNCHANGED notArrivals
    \/ ClearSelection /\ UNCHANGED notArrivals
    \/ ArrivalsPollTimer(MaxRequests) /\ UNCHANGED notArrivals
    \/ \E r \in fetches : \E outcome \in ArrivalsOutcomes :
            ArrivalsFetched(r, outcome) /\ UNCHANGED notArrivals
    \/ \E r \in fetches : ArrivalsAborted(r) /\ UNCHANGED notArrivals

SpecArrivals == InitArrivals /\ [][NextArrivals]_vars

\* the arrivals query
InitStops ==
    /\ now = 0
    /\ FeedInit({})
    /\ TransiterInit
    /\ ClientInit
    /\ ArrivalsInit
    /\ StopsInit
    /\ InterpInit
    /\ FnInit
    /\ SpatialInit
    /\ AnimInit
    /\ StartupInit
    /\ NearbyInit

NextStops ==
    \/ \E stopId \in StopIds : \E upstream \in UpstreamAnswers :
            \E stopTimes \in UpstreamStopTimeLists :
                GetStopArrivals(stopId, upstream, stopTimes) /\ UNCHANGED notStops
    \/ StopsClock(MaxTicksStops) /\ UNCHANGED notStops

SpecStops == InitStops /\ [][NextStops]_vars

\* the target position, on the server and in the client
InitInterp ==
    /\ now = InterpStart
    /\ FeedInit({})
    /\ TransiterInit
    /\ ClientInit
    /\ ArrivalsInit
    /\ StopsInit
    /\ InterpInit
    /\ FnInit
    /\ SpatialInit
    /\ AnimInit
    /\ StartupInit
    /\ NearbyInit

NextInterp ==
    \/ \E tripData \in {NoTripData, TripDataHop} :
            InterpServer(tripData) /\ UNCHANGED notInterp
    \/ \E train \in HandMadeTrains : InterpReceive(train) /\ UNCHANGED notInterp
    \/ InterpFrame /\ UNCHANGED notInterp
    \/ InterpClock(MaxTicksInterp) /\ UNCHANGED notInterp

SpecInterp == InitInterp /\ [][NextInterp]_vars



\* bearings
InitBearing ==
    /\ now = 0
    /\ FeedInit({})
    /\ TransiterInit
    /\ ClientInit
    /\ ArrivalsInit
    /\ StopsInit
    /\ InterpInit
    /\ FnInit
    /\ SpatialInit
    /\ AnimInit
    /\ StartupInit
    /\ NearbyInit

NextBearing ==
    \/ \E from \in BearingPoints : \E to \in BearingPoints :
            \E raw \in Atan2Outputs(from.lat, from.lon, to.lat, to.lon) \cup
                            {atan2Degrees(from.lat, from.lon, to.lat, to.lon)} :
                CalculateBearing(from, to, raw) /\ UNCHANGED notFn
    \/ \E fromBearing \in BearingSamples : \E toBearing \in BearingSamples :
            \E num \in 0..ProgressSteps :
                InterpolateBearing(fromBearing, toBearing, num) /\ UNCHANGED notFn

SpecBearing == InitBearing /\ [][NextBearing]_vars


\* the departure window
InitLeave ==
    /\ now = 0
    /\ FeedInit({})
    /\ TransiterInit
    /\ ClientInit
    /\ ArrivalsInit
    /\ StopsInit
    /\ InterpInit
    /\ FnInit
    /\ SpatialInit
    /\ AnimInit
    /\ StartupInit
    /\ NearbyInit

NextLeave ==
    \/ \E arrivalTimeSec \in LeaveArrivalTimes : \E walkingTimeMin \in WalkingTimes :
            \E t \in LeaveNows :
                GetTrainSeverity(arrivalTimeSec, walkingTimeMin, t) /\ UNCHANGED notFn
    \/ /\ fnCall[1] # "selectBestTrains"
       /\ \E arrivals \in DirectionLists :
            SelectDirection(arrivals, 5, 1000000) /\ UNCHANGED notFn

SpecLeave == InitLeave /\ [][NextLeave]_vars


\* the spatial index
InitSpatial ==
    /\ now = 0
    /\ FeedInit({})
    /\ TransiterInit
    /\ ClientInit
    /\ ArrivalsInit
    /\ StopsInit
    /\ InterpInit
    /\ FnInit
    /\ SpatialInit
    /\ AnimInit
    /\ StartupInit
    /\ NearbyInit

NextSpatial ==
    \/ \E ok \in BOOLEAN : \E stationsData \in StationLists :
            LoadStations(ok, stationsData) /\ UNCHANGED notSpatialFn
    \/ \E q \in QueryPoints : \E radius \in QueryRadii :
            GetNearbyStations(q.latitude, q.longitude, radius) /\ UNCHANGED notSpatialFn

SpecSpatial == InitSpatial /\ [][NextSpatial]_vars


\* the walking time
InitWalking ==
    /\ now = 0
    /\ FeedInit({})
    /\ TransiterInit
    /\ ClientInit
    /\ ArrivalsInit
    /\ StopsInit
    /\ InterpInit
    /\ FnInit
    /\ SpatialInit
    /\ AnimInit
    /\ StartupInit
    /\ NearbyInit

NextWalking ==
    \/ \E d1 \in WalkingDistances : \E d2 \in WalkingDistances :
            CalculateWalkingTimes(d1, d2) /\ UNCHANGED notFn

SpecWalking == InitWalking /\ [][NextWalking]_vars


\* the Transiter poller over lists of several vehicles, one poll() at a time
NextSnapshot ==
    \/ \E loaded \in PreloadResults :
            TransiterStartPolling(loaded, 1) /\ UNCHANGED notTransiter
    \/ TransiterPollTimer(1) /\ UNCHANGED notTransiter
    \/ \E i \in 1..Len(cycles) : \E vehicles \in SnapshotVehicleLists :
            VehiclesFetched(i, vehicles, FALSE, NoWrite) /\ UNCHANGED notTransiter
    \/ \E i \in 1..Len(cycles) : \E responses \in TripResponseMaps :
            TripsFetched(i, responses, NoWrite) /\ UNCHANGED notTransiter
    \/ TransiterClock(MaxTicksSnapshot) /\ UNCHANGED notTransiter

SpecSnapshot == InitTransiter /\ [][NextSnapshot]_vars


\* calculateTrainPosition() applied once to any vehicle, schedule and stop cache
InitPosition == InitBearing

NextPosition ==
    \/ /\ fnCall = NoCall
       /\ \E vehicle \in PositionVehicles, tripData \in PositionTripData :
          \E cache \in SUBSET {"A", "B"}, t \in PositionNows :
                CalculateTrainPosition(vehicle, tripData, cache, t) /\ UNCHANGED notFn

SpecPosition == InitPosition /\ [][NextPosition]_vars


\* the animation of one train whose segment changes
InitAnim ==
    /\ now = AnimStart
    /\ FeedInit({})
    /\ TransiterInit
    /\ ClientInit
    /\ ArrivalsInit
    /\ StopsInit
    /\ InterpInit
    /\ FnInit
    /\ SpatialInit
    /\ AnimInit
    /\ StartupInit
    /\ NearbyInit

NextAnim ==
    \/ Animate /\ UNCHANGED notAnimInterp
    \/ \E trains \in AnimTrainLists : AnimSetTrains(trains) /\ UNCHANGED notAnimInterp
    \/ AnimClock(MaxTicksAnim) /\ UNCHANGED notAnimInterp

SpecAnim == InitAnim /\ [][NextAnim]_vars


\* startPolling() from the start of the process, and the polling after it
InitStartup ==
    /\ now = TransiterStart
    /\ FeedInit({})
    /\ TransiterInit
    /\ ClientInit
    /\ ArrivalsInit
    /\ StopsInit
    /\ InterpInit
    /\ FnInit
    /\ SpatialInit
    /\ AnimInit
    /\ StartupInit
    /\ NearbyInit

NextStartup ==
    \/ StartupBegins /\ UNCHANGED notStartupTransiter
    \/ \E healthy \in BOOLEAN : HealthCheck(healthy) /\ UNCHANGED notStartupTransiter
    \/ \E answer \in PageAnswers : \E stops \in SUBSET {"A", "B"} :
            PreloadPage(answer, stops) /\ UNCHANGED notStartupTransiter
    \/ StartupProceeds /\ UNCHANGED notStartupTransiter
    \/ TransiterPollTimer(1) /\ UNCHANGED notTransiter
    \/ \E i \in 1..Len(cycles) : \E vehicles \in {<<>>, <<Vehicle1>>} :
            VehiclesFetched(i, vehicles, FALSE, NoWrite) /\ UNCHANGED notTransiter
    \/ \E i \in 1..Len(cycles) : \E responses \in TripResponseMaps :
            TripsFetched(i, responses, NoWrite) /\ UNCHANGED notTransiter
    \/ TransiterClock(MaxTicksStartup) /\ UNCHANGED notTransiter

\* every request is answered and every timer fires; what the upstream answers
\* is its choice
SpecStartup ==
    /\ InitStartup
    /\ [][NextStartup]_vars
    /\ WF_vars(\E healthy \in BOOLEAN : HealthCheck(healthy) /\ UNCHANGED notStartupTransiter)
    /\ WF_vars(\E answer \in PageAnswers : \E stops \in SUBSET {"A", "B"} :
                    PreloadPage(answer, stops) /\ UNCHANGED notStartupTransiter)
    /\ WF_vars(StartupProceeds /\ UNCHANGED notStartupTransiter)
    /\ WF_vars(\E i \in 1..Len(cycles) : \E vehicles \in {<<>>, <<Vehicle1>>} :
                    VehiclesFetched(i, vehicles, FALSE, NoWrite) /\ UNCHANGED notTransiter)
    /\ WF_vars(\E i \in 1..Len(cycles) : \E responses \in TripResponseMaps :
                    TripsFetched(i, responses, NoWrite) /\ UNCHANGED notTransiter)


\* the animation of two trains that come and go
NextLive ==
    \/ Animate /\ UNCHANGED notAnimInterp
    \/ \E trains \in LiveTrainLists : AnimSetTrains(trains) /\ UNCHANGED notAnimInterp
    \/ AnimClock(MaxTicksLive) /\ UNCHANGED notAnimInterp

SpecLive == InitAnim /\ [][NextLive]_vars


\* the pulse of one train that stops and leaves
NextPulse ==
    \/ Animate /\ UNCHANGED notAnimInterp
    \/ \E trains \in PulseTrainLists : AnimSetTrains(trains) /\ UNCHANGED notAnimInterp
    \/ AnimClock(MaxTicksPulse) /\ UNCHANGED notAnimInterp

SpecPulse == InitAnim /\ [][NextPulse]_vars


\* the bearing of one train that turns
NextTurn ==
    \/ Animate /\ UNCHANGED notAnimInterp
    \/ \E trains \in TurnTrainLists : AnimSetTrains(trains) /\ UNCHANGED notAnimInterp
    \/ AnimClock(MaxTicksTurn) /\ UNCHANGED notAnimInterp

SpecTurn == InitAnim /\ [][NextTurn]_vars


\* the nearby stations and their arrivals
InitNearby ==
    /\ now = NearbyStart
    /\ FeedInit({})
    /\ TransiterInit
    /\ ClientInit
    /\ ArrivalsInit
    /\ StopsInit
    /\ InterpInit
    /\ FnInit
    /\ SpatialInit
    /\ AnimInit
    /\ StartupInit
    /\ NearbyInit

NextNearby ==
    \/ NearbyMount /\ UNCHANGED notNearby
    \/ \E location \in NearbyLocations : SetUserLocation(location) /\ UNCHANGED notNearby
    \/ LoadNearbyStations /\ UNCHANGED notNearby
    \/ \E stopId \in NearbyStationIds : RetryStation(stopId) /\ UNCHANGED notNearby
    \/ \E r \in nearbyRequests : \E ok \in BOOLEAN :
            ArrivalsAnswered(r, ok) /\ UNCHANGED notNearby
    \/ \E step \in {LOCATION_DEBOUNCE_MS, CACHE_TTL_MS} :
            NearbyClock(step, MaxTicksNearby) /\ UNCHANGED notNearby

SpecNearby == InitNearby /\ [][NextNearby]_vars


\* the train cache under the updates of two feeds
NextCache ==
    \/ \E feedId \in FeedIds : \E entities \in FeedMessages(feedId) :
            UpdateFromFeed(feedId, entities)
                /\ UNCHANGED <<transiterVars, clientVars, arrivalsVars, stopsVars, interpVars,
                               spatialVars, animVars, startupVars, nearbyVars>>

SpecCache == InitBearing /\ [][NextCache]_vars


(***************************************************************************)
(* Claims about the circuit breaker and the multi-feed poller              *)
(***************************************************************************)

\* C1: after 1 or 2 consecutive recordFailure() calls isOpen is false; after the
\* 3rd (or a later one, no recordSuccess() in between) isOpen is true for every
\* query made less than recoveryTimeoutMs after that failure.
C1_OpensAtThreshold ==
    \A f \in DOMAIN circuitBreakers :
        LET n == consecutiveFailures[f]
            q == isOpen(circuitBreakers[f], now)
        IN  /\ n \in {1, 2} => ~q.result
            /\ (n >= failureThreshold /\ now - lastFailureAt[f] < recoveryTimeoutMs)
                    => q.result

\* the 3rd consecutive failure was recorded one clock step ago and isOpen is true
C1_Witness ==
    \E f \in DOMAIN circuitBreakers :
        /\ consecutiveFailures[f] = failureThreshold
        /\ now - lastFailureAt[f] = FeedClockStep
        /\ isOpen(circuitBreakers[f], now).result

\* C2: once the recovery timeout has elapsed on an open breaker, isOpen answers
\* false exactly once before recordSuccess() or recordFailure() is called.
C2_SingleTrial ==
    \A f \in DOMAIN circuitBreakers : halfOpenGrants[f] <= 1

\* C3: recordSuccess() leaves the breaker Closed with failure count 0, whatever
\* its state was; the breaker stays so until the next fetch finishes.
C3_SuccessCloses ==
    lastFetch.kind = "success" =>
        /\ circuitBreakers[lastFetch.feed].state = "CLOSED"
        /\ circuitBreakers[lastFetch.feed].failureCount = 0

\* three failures in a row, then a success recorded on the half-open breaker
\* after the recovery window
C3_Witness ==
    /\ lastFetch.kind = "success"
    /\ lastFetch.prevState = "HALF_OPEN"
    /\ lastFetch.prevCount = failureThreshold
    /\ now - lastFailureAt[lastFetch.feed] >= recoveryTimeoutMs
    /\ circuitBreakers[lastFetch.feed].state = "CLOSED"
    /\ circuitBreakers[lastFetch.feed].failureCount = 0

\* C4: recordFailure() on a HalfOpen breaker re-opens it: the failure count is
\* incremented, lastFailureTime is the time of that failure, and isOpen is true
\* until a full recovery timeout has passed since that failure.
C4_HalfOpenFailureReopens ==
    (lastFetch.kind = "failure" /\ lastFetch.prevState = "HALF_OPEN") =>
        LET f == lastFetch.feed
            b == circuitBreakers[f]
        IN  /\ b.failureCount = lastFetch.prevCount + 1
            /\ b.lastFailureTime = lastFailureAt[f]
            /\ b.state \in {"OPEN", "HALF_OPEN"}
            /\ now - lastFailureAt[f] < recoveryTimeoutMs =>
                    (b.state = "OPEN" /\ isOpen(b, now).result)
            /\ b.state = "HALF_OPEN" => now - lastFailureAt[f] >= recoveryTimeoutMs

\* a failure on the half-open breaker one clock step ago; the breaker is open again
C4_Witness ==
    /\ lastFetch.kind = "failure"
    /\ lastFetch.prevState = "HALF_OPEN"
    /\ now - lastFailureAt[lastFetch.feed] = FeedClockStep
    /\ lastFailureAt[lastFetch.feed] >= recoveryTimeoutMs
    /\ isOpen(circuitBreakers[lastFetch.feed], now).result

\* C5: a fetchFeed call that finds isOpen true makes no network call and no record
\* call, and the feed's FeedStatus says unhealthy; one that finds it false makes
\* exactly one of recordSuccess() / recordFailure().  Whenever isOpen would
\* answer true the feed's FeedStatus exists and says unhealthy.
C5_OneRecordPerAttempt ==
    /\ lastFetch.kind = "skip" =>
            /\ lastFetch.network = 0
            /\ lastFetch.successes = 0
            /\ lastFetch.failures = 0
            /\ lastFetch.unhealthy
    /\ lastFetch.kind \in {"success", "failure"} =>
            /\ lastFetch.network = 1
            /\ lastFetch.successes + lastFetch.failures = 1
    /\ \A f \in DOMAIN circuitBreakers :
            isOpen(circuitBreakers[f], now).result =>
                /\ trainCache.feedStatuses[f].exists
                /\ ~trainCache.feedStatuses[f].isHealthy

\* a skipped fetch of one feed while the other feed is healthy
C5_Witness ==
    /\ lastFetch.kind = "skip"
    /\ \E g \in DOMAIN circuitBreakers :
            g # lastFetch.feed /\ trainCache.feedStatuses[g].isHealthy

\* the step is a failed fetch of feed f, or a fetchFeed(f) skipped on an open breaker
FailedOrSkipped(f) ==
    \/ \E a \in attempts : a.feed = f /\ FetchFeedFailure(a)
    \/ /\ toStart # <<>>
       /\ Head(toStart) = f
       /\ isOpen(circuitBreakers[f], now).result
       /\ FetchFeedBegin

\* C6: a failed or skipped fetch of feed f changes no other feed's breaker, no
\* train of the cache and no other feed's FeedStatus; f's own FeedStatus keeps
\* its lastUpdate (and only a failure makes it unhealthy).
C6_OutageIsolated ==
    [][\A f \in DOMAIN circuitBreakers :
          FailedOrSkipped(f) =>
              /\ \A g \in DOMAIN circuitBreakers \ {f} :
                    /\ circuitBreakers'[g] = circuitBreakers[g]
                    /\ trainCache'.feedStatuses[g] = trainCache.feedStatuses[g]
              /\ trainCache'.trains = trainCache.trains
              /\ trainCache'.feedStatuses[f].lastUpdate =
                    trainCache.feedStatuses[f].lastUpdate
              /\ ~trainCache'.feedStatuses[f].isHealthy]_vars

\* feed ace has failed after an update: its train is still cached, its FeedStatus
\* is unhealthy with the lastUpdate kept, and feed g is untouched and healthy
C6_Witness ==
    /\ lastFetch.kind = "failure"
    /\ lastFetch.feed = "ace"
    /\ "g" \in DOMAIN circuitBreakers
    /\ \E x \in trainCache.trains : x.line = "A"
    /\ \E x \in trainCache.trains : x.line = "G"
    /\ trainCache.feedStatuses["ace"].lastUpdate > 0
    /\ ~trainCache.feedStatuses["ace"].isHealthy
    /\ trainCache.feedStatuses["g"].isHealthy

(***************************************************************************)
(* Claims about the Transiter poller and its readers                       *)
(***************************************************************************)

\* C7: every train of a published snapshot (a change broadcast, the initial
\* message to a connecting subscriber, a pull read) is at most 5 minutes old at
\* the time the snapshot is published.
C7_PublishedFresh ==
    published.kind # "none" =>
        \A i \in 1..Len(published.trains) :
            published.timestamp - published.trains[i].timestamp <= STALE_THRESHOLD_MS

\* C8: no two trains of the snapshot a poll cycle installs share an id.
C8_UniqueIds ==
    \A i, j \in 1..Len(currentTrains) :
        i # j => currentTrains[i].id # currentTrains[j].id

\* C9: a poll cycle fed the same vehicles, trip schedules and stop coordinates as
\* the cycle before it does not invoke the broadcast callback.
C9_RepeatIsSilent ==
    lastDone.repeat => ~lastDone.broadcast

\* C10: poll cycles never overlap, so the snapshot is never replaced by the
\* result of a cycle that began before the cycle whose result is installed.
C10_NoOverlap ==
    /\ Len(cycles) <= 1
    /\ ~lastDone.overtaken

(***************************************************************************)
(* Claims about the snapshot, its readers and the stream's clients         *)
(***************************************************************************)

\* C11: when a page request of the vehicle fetch has failed, the poll cycle that
\* returns leaves isHealthy = false, keeps the trains published before it and
\* broadcasts nothing.
C11_FailedFetchKeepsSnapshot ==
    [][(Len(cycles') < Len(cycles) /\ lastDone'.fetchFailed) =>
            /\ ~getFeedStatuses'.isHealthy
            /\ getTrains' = getTrains
            /\ published'.kind # "broadcast"]_vars


\* C12: whatever a reader is given (the message to a new stream client, the pull
\* response, the status response, a broadcast) is the trains, the lastUpdate and
\* the health of one poll cycle: those the poll() call that returned last has
\* installed (a broadcast is written by that call, with the health it installed),
\* or those of the start when no call has returned.
C12_ReadersSeeOneSnapshot ==
    /\ published.kind \in {"connect", "pull", "broadcast"} =>
            published.trains = lastDone.trains
    /\ published.kind = "status" => published.trainCount = Len(lastDone.trains)
    /\ published.kind \in {"connect", "pull", "status"} =>
            published.feedStatuses = FeedStatusOf(lastDone.now, lastDone.healthy)
    /\ published.kind = "broadcast" =>
            published.feedStatuses = FeedStatusOf(lastDone.now, TRUE)

\* a new stream client is given the snapshot of the previous cycle while the
\* next cycle waits for its trip requests
C12_Witness ==
    /\ published.kind = "connect"
    /\ published.trains # <<>>
    /\ lastDone.valid
    /\ \E i \in 1..Len(cycles) : cycles[i].phase = "trips"

\* C13: when the write to one client fails during a broadcast or a heartbeat,
\* that client has left the connection set, every client that remains has been
\* written the message, and the poll cycle that broadcast stays recorded healthy.
C13_WriteFailureIsolated ==
    (published.kind \in {"broadcast", "heartbeat"} /\ published.failed # 0) =>
        /\ published.failed \notin Range(clients)
        /\ Range(clients) \ {published.failed} \subseteq published.to
        /\ published.kind = "broadcast" => getFeedStatuses.isHealthy

(***************************************************************************)
(* Claims about the stream client                                          *)
(***************************************************************************)

\* C14: the reconnections scheduled since the last open have the delays 1000,
\* 2000, 4000, 8000, 16000, 30000, 30000, ... ms; an error leaves the client
\* disconnected with its EventSource closed and a reconnection scheduled with
\* the delay it found; the reconnection doubles the delay up to 30000 ms; the
\* delay is always within [1000, 30000].
C14_BackoffSequence ==
    /\ scheduled = SubSeq(<<1000, 2000, 4000, 8000, 16000, 30000, 30000, 30000, 30000>>,
                          1, Len(scheduled))
    /\ retryDelay \in 1000..30000
    /\ lastEvent.kind = "error" =>
            /\ ~store.isConnected
            /\ eventSource = "closed"
            /\ retryTimeout = lastEvent.delayBefore
    /\ lastEvent.kind = "retry" =>
            retryDelay = IF lastEvent.delayBefore >= 15000 THEN 30000
                         ELSE 2 * lastEvent.delayBefore

\* the seventh error in a row: the reconnection is scheduled with 30000 ms again
C14_Witness ==
    /\ lastEvent.kind = "error"
    /\ Len(scheduled) = 7
    /\ retryTimeout = 30000

\* C15: an open leaves the retry delay at 1000 ms, and no other event lowers it.
C15_ResetOnlyOnOpen ==
    /\ lastEvent.kind = "open" => retryDelay = 1000
    /\ retryDelay < lastEvent.delayBefore => lastEvent.kind = "open"

\* an open that finds a raised delay
C15_Witness ==
    /\ lastEvent.kind = "open"
    /\ lastEvent.delayBefore > 1000

C18_NoStaleWrite ==
    /\ \A r \in fetches :
            ~r.aborted => r.id = issued /\ r.stopId = stopStore.selectedStopId
    /\ lastWriter.kind \in {"data", "error"} =>
            /\ lastWriter.request = issued
            /\ lastWriter.stopId = stopStore.selectedStopId

\* the request for a stop that was replaced by another ends with its
\* AbortError while the request for the new stop is in flight
C18_Witness ==
    /\ lastWriter.kind = "aborted"
    /\ stopStore.selectedStopId # None
    /\ lastWriter.stopId # stopStore.selectedStopId
    /\ \E r \in fetches : r.id = issued /\ ~r.aborted

\* C19: the arrivals query answers 404 STOP_NOT_FOUND when the upstream does not
\* know the stop, 504 TIMEOUT when the upstream request times out and 503
\* SERVICE_UNAVAILABLE when it fails or returns another error status; a timeout
\* or an outage is never answered with STOP_NOT_FOUND.
C19_FailuresDistinct ==
    stopsReply # NoReply =>
        /\ stopsQuery.upstream = "notFound" =>
                stopsReply.status = 404 /\ stopsReply.error = "STOP_NOT_FOUND"
        /\ stopsQuery.upstream = "timeout" =>
                stopsReply.status = 504 /\ stopsReply.error = "TIMEOUT"
        /\ stopsQuery.upstream \in {"networkError", "errorStatus"} =>
                stopsReply.status = 503 /\ stopsReply.error = "SERVICE_UNAVAILABLE"

(***************************************************************************)
(* Claims about the target position                                        *)
(***************************************************************************)

\* the position (lat, lon) computed at time t (ms) between the anchors P and N
\* with P.time < N.time: at P up to P.time, at N from N.time on, and otherwise at
\* the point of the segment from P to N that divides it like t divides the time
\* from P.time to N.time (to the unit of the coordinates)
OnSegmentAt(lat, lon, P, N, t) ==
    /\ t <= P.time * 1000 => lat = P.latitude /\ lon = P.longitude
    /\ t >= N.time * 1000 => lat = N.latitude /\ lon = N.longitude
    /\ (t > P.time * 1000 /\ t < N.time * 1000) =>
         LET total == (N.time - P.time) * 1000
             elapsed == t - P.time * 1000
             dLat == (lat - P.latitude) * total - (N.latitude - P.latitude) * elapsed
             dLon == (lon - P.longitude) * total - (N.longitude - P.longitude) * elapsed
         IN  /\ dLat > -total /\ dLat < total
             /\ dLon > -total /\ dLon < total
    /\ (P.time = 1000 /\ N.time = 1015 /\ t = 1007500) =>
            /\ 2 * lat = P.latitude + N.latitude
            /\ 2 * lon = P.longitude + N.longitude

Anchored(train) ==
    /\ train.prevStop # NoStopTiming
    /\ train.nextStop # NoStopTiming
    /\ train.nextStop.time > train.prevStop.time

\* C20: for a train with anchors T0 < T1, the position the server computes and
\* the target the client computes are at prevStop up to T0, at nextStop from T1
\* on and on the segment in between in proportion to the time, the midpoint for
\* T0 = 1000, T1 = 1015 at 1007.5; for a train without both anchors or with
\* T1 <= T0 the client's target is the reported position.
C20_ClampedInterpolation ==
    /\ (interpTrain # <<>> /\ interpServerAt # NoTime /\ Anchored(interpTrain[1])) =>
                OnSegmentAt(interpTrain[1].latitude, interpTrain[1].longitude,
                            interpTrain[1].prevStop, interpTrain[1].nextStop,
                            interpServerAt)
    /\ clientTarget.valid =>
            IF Anchored(interpTrain[1])
            THEN OnSegmentAt(clientTarget.lat, clientTarget.lon,
                             interpTrain[1].prevStop, interpTrain[1].nextStop,
                             clientTarget.t)
            ELSE /\ clientTarget.lat = interpTrain[1].latitude
                 /\ clientTarget.lon = interpTrain[1].longitude

\* the client's target at 1007.5 for a train the server placed before the hop
C20_Witness ==
    /\ clientTarget.valid
    /\ clientTarget.t = 1007500
    /\ interpServerAt # NoTime
    /\ interpServerAt < 1000000
    /\ Anchored(interpTrain[1])
    /\ interpTrain[1].prevStop.time = 1000
    /\ interpTrain[1].nextStop.time = 1015

(***************************************************************************)
(* Claims about bearings                                                   *)
(***************************************************************************)

\* the angle between two bearings, the short way round
ArcLength(a, b) == IF a >= b
                   THEN (IF a - b <= 180 THEN a - b ELSE 360 - (a - b))
                   ELSE (IF b - a <= 180 THEN b - a ELSE 360 - (b - a))

\* C21: calculateBearing returns a value in [0, 360), 0 for identical points;
\* interpolateBearing(from, to, p) returns a value in [0, 360) on the shorter arc
\* between from and to, from at p = 0 and to at p = 1, and from 350 to 10 only
\* values in 350..360 and 0..10.
C21_BearingsNormalized ==
    /\ fnCall[1] = "calculateBearing" =>
            /\ fnResult >= 0 /\ fnResult < 360
            /\ fnCall[2] = fnCall[3] => fnResult = 0
    /\ fnCall[1] = "interpolateBearing" =>
            /\ fnResult >= 0 /\ fnResult < 360
            /\ ArcLength(fnCall[2], fnResult) + ArcLength(fnResult, fnCall[3])
                    = ArcLength(fnCall[2], fnCall[3])
            /\ fnCall[4] = 0 => fnResult = fnCall[2]
            /\ fnCall[4] = ProgressSteps => fnResult = fnCall[3]
            /\ (fnCall[2] = 350 /\ fnCall[3] = 10) => (fnResult >= 350 \/ fnResult <= 10)

\* half way from 350 to 10, past north
C21_Witness ==
    /\ fnCall = <<"interpolateBearing", 350, 10, 2>>
    /\ fnResult = 7

(***************************************************************************)
(* Claims about the departure window                                       *)
(***************************************************************************)

\* C22: with minutesToLeave = (arrivalTime - walkingTimeMinutes * 60 - now) / 60,
\* getTrainSeverity gives ideal exactly for 0.5 <= minutesToLeave <= 3, too-soon
\* exactly for minutesToLeave < 0.5 and long-wait exactly for minutesToLeave > 3.
C22_SeverityClasses ==
    fnCall[1] = "getTrainSeverity" =>
        /\ fnResult \in {"ideal", "too-soon", "long-wait"}
        /\ fnResult = "ideal" <=>
                /\ 2 * (fnCall[2] * 1000 - fnCall[3] * 60000 - fnCall[4]) >= 60000
                /\ fnCall[2] * 1000 - fnCall[3] * 60000 - fnCall[4] <= 3 * 60000
        /\ fnResult = "too-soon" <=>
                2 * (fnCall[2] * 1000 - fnCall[3] * 60000 - fnCall[4]) < 60000
        /\ fnResult = "long-wait" <=>
                fnCall[2] * 1000 - fnCall[3] * 60000 - fnCall[4] > 3 * 60000

\* an arrival to leave for in exactly half a minute is ideal
C22_Witness ==
    /\ fnCall = <<"getTrainSeverity", 1330, 5, 1000000>>
    /\ fnResult = "ideal"

\* the number of the trains of a selection that satisfy a condition
CountIdeal(selection) == Cardinality({i \in 1..Len(selection) : selection[i].isIdeal})

CountAlternative(selection) ==
    Cardinality({i \in 1..Len(selection) : selection[i].isAlternative})

WithinRadius ==
    {indexRef[1][i] : i \in {j \in 1..Len(indexRef[1]) :
        haversineDistance(fnCall[2], fnCall[3], indexRef[1][j].latitude,
                          indexRef[1][j].longitude) <= fnCall[4]}}

Usable(vehicle, stops) ==
    vehicle.routeId # "" /\ vehicle.stopId # "" /\ vehicle.stopId \in stops

\* the positions in the list of the cycle's vehicles that are usable and whose
\* update is at most 5 minutes old
Surviving(cycle) ==
    {i \in 1..Len(cycle.vehicles) :
        /\ Usable(cycle.vehicles[i], cycle.stops)
        /\ cycle.now - cycle.vehicles[i].updatedAt * 1000 <= 5 * 60 * 1000}

\* C26: a cycle with unusable vehicles does not fail and publishes one train for
\* every other non-stale vehicle: 2 trains for 3 vehicles of which one has an
\* unknown stop; a vehicle without a trip schedule is published at the
\* coordinates of its stop.
C26_UnusableVehiclesDropped ==
    lastDone.valid =>
        /\ lastDone.healthy
        /\ currentTrains = lastDone.trains
        /\ Len(currentTrains) = Cardinality(Surviving(lastDone))
        /\ {currentTrains[k].id : k \in 1..Len(currentTrains)}
                = {lastDone.vehicles[i].id : i \in Surviving(lastDone)}
        /\ \A i \in Surviving(lastDone) :
                lastDone.vehicles[i].tripId \notin DOMAIN lastDone.tripData =>
                    \E k \in 1..Len(currentTrains) :
                        /\ currentTrains[k].id = lastDone.vehicles[i].id
                        /\ currentTrains[k].latitude
                                = StopCoordinates[lastDone.vehicles[i].stopId].lat
                        /\ currentTrains[k].longitude
                                = StopCoordinates[lastDone.vehicles[i].stopId].lon
        /\ (Len(lastDone.vehicles) = 3 /\ lastDone.stops = {"A", "B"}
                /\ lastDone.now <= 400000
                /\ \E i \in 1..3 : lastDone.vehicles[i].stopId = "X")
             => Len(currentTrains) = 2

\* three vehicles, one at an unknown stop and one without a schedule: two trains
C26_Witness ==
    /\ lastDone.valid
    /\ Len(lastDone.vehicles) = 3
    /\ \E i \in 1..3 : lastDone.vehicles[i].stopId = "X"
    /\ Len(currentTrains) = 2
    /\ \E k \in 1..2 : currentTrains[k].id = 2 /\ currentTrains[k].latitude = 40700000

\* the (id, latitude, longitude) of the trains, to 5 decimals
PositionKeys(trains) ==
    {<<trains[k].id, toFixed5(trains[k].latitude), toFixed5(trains[k].longitude)>> :
        k \in 1..Len(trains)}

DistinctIds(trains) ==
    \A j, k \in 1..Len(trains) : trains[j].id = trains[k].id => j = k

FrameTrain == interpTrain[1]

HadState == lastFrame.valid /\ FrameTrain.id \in DOMAIN lastFrame.states

StateBefore == lastFrame.states[FrameTrain.id]

RenderedBefore ==
    lastFrame.rendered[CHOOSE j \in 1..Len(lastFrame.rendered) :
                            lastFrame.rendered[j].id = FrameTrain.id]

PairChanged ==
    <<StateBefore.prevStopId, StateBefore.nextStopId>>
        # <<FrameTrain.prevStop.stopId, FrameTrain.nextStop.stopId>>

\* from + (to - from) * (1 - (1 - p)^3) for p = k / ProgressSteps
CubicBlend(from, to, k) ==
    from + ((to - from) * (ProgressSteps * ProgressSteps * ProgressSteps
                           - (ProgressSteps - k) * (ProgressSteps - k) * (ProgressSteps - k)))
                \div (ProgressSteps * ProgressSteps * ProgressSteps)

\* C30: a frame on which the train's pair of stops differs from the stored pair
\* renders the position of the frame before and starts a transition from it,
\* also when a transition is running; in the 300 ms after the start a frame
\* renders the ease-out-cubic blend of the start position and the target; the
\* first frame at or after 300 ms renders the target and clears the transition.
C30_TransitionFromLastRendered ==
    (lastFrame.valid /\ interpTrain # <<>>) =>
        LET state == animationStates[FrameTrain.id]
            out == interpolatedTrains[1]
            target == getTargetPosition(FrameTrain, lastFrame.at)
            elapsed == lastFrame.at - state.transitionStart
        IN  /\ (HadState /\ PairChanged) =>
                /\ out.latitude = RenderedBefore.latitude
                /\ out.longitude = RenderedBefore.longitude
                /\ state.transitionStart = lastFrame.at
                /\ state.fromLat = RenderedBefore.latitude
                /\ state.fromLon = RenderedBefore.longitude
            /\ (HadState /\ ~PairChanged /\ StateBefore.transitionStart > 0) =>
                /\ state.fromLat = StateBefore.fromLat
                /\ state.fromLon = StateBefore.fromLon
                /\ IF lastFrame.at - StateBefore.transitionStart
                        < POSITION_TRANSITION_DURATION_MS
                   THEN state.transitionStart = StateBefore.transitionStart
                   ELSE state.transitionStart = 0
            /\ state.transitionStart > 0 =>
                /\ elapsed < POSITION_TRANSITION_DURATION_MS
                /\ out.latitude = CubicBlend(state.fromLat, target.lat, elapsed \div AnimClockStep)
                /\ out.longitude = CubicBlend(state.fromLon, target.lon, elapsed \div AnimClockStep)
            /\ state.transitionStart = 0 =>
                /\ out.latitude = target.lat
                /\ out.longitude = target.lon

\* a segment change in the middle of a transition, away from the target
C30_Witness ==
    /\ lastFrame.valid
    /\ interpTrain # <<>>
    /\ HadState
    /\ PairChanged
    /\ StateBefore.transitionStart > 0
    /\ interpolatedTrains[1].latitude = RenderedBefore.latitude
    /\ interpolatedTrains[1].latitude
            # getTargetPosition(FrameTrain, lastFrame.at).lat
    /\ RenderedBefore.latitude # StateBefore.fromLat

(***************************************************************************)
(* Claims about the startup of the Transiter poller                        *)
(***************************************************************************)

\* C27: once startPolling() is called it reaches its initial poll and sets the
\* polling interval, whatever the upstream answers.
C27_StartupReachesPolling == (startup = "waiting") ~> transiterPollInterval

\* the health check loop ends within 30 attempts
HealthCheckLoopBounded ==
    /\ healthAttempts <= MAX_HEALTH_ATTEMPTS
    /\ healthAttempts = MAX_HEALTH_ATTEMPTS => healthCheckResult = "gaveUp"

\* the ids of the trains of the store
LiveIds == {interpTrain[i].id : i \in 1..Len(interpTrain)}

\* C31: animation state exists exactly for the ids of the snapshot in the store;
\* the state of an id that had none before the frame has no transition and its
\* train is rendered at its target; every frame renders one record per train of
\* the snapshot, in order.
C31_StateForLiveIdsOnly ==
    /\ DOMAIN animationStates = LiveIds
    /\ Len(interpolatedTrains) = Len(interpTrain)
    /\ \A i \in 1..Len(interpTrain) : interpolatedTrains[i].id = interpTrain[i].id
    /\ \A i \in 1..Len(interpTrain) :
            (lastFrame.valid /\ interpTrain[i].id \notin DOMAIN lastFrame.states) =>
                /\ animationStates[interpTrain[i].id].transitionStart = 0
                /\ animationStates[interpTrain[i].id].bearingTransitionStart = 0
                /\ animationStates[interpTrain[i].id].prevStopId
                        = interpTrain[i].prevStop.stopId
                /\ animationStates[interpTrain[i].id].nextStopId
                        = interpTrain[i].nextStop.stopId
                /\ interpolatedTrains[i].latitude
                        = getTargetPosition(interpTrain[i], lastFrame.at).lat
                /\ interpolatedTrains[i].longitude
                        = getTargetPosition(interpTrain[i], lastFrame.at).lon

\* train 2, whose state was deleted, is back on another segment next to train 3,
\* which has kept its state: train 2 has a new state without a transition
C31_Witness ==
    /\ lastFrame.valid
    /\ 2 \in lastFrame.purged
    /\ LiveIds = {2, 3}
    /\ 2 \notin DOMAIN lastFrame.states
    /\ 3 \in DOMAIN lastFrame.states
    /\ animationStates[2].transitionStart = 0
    /\ animationStates[2].prevStopId = "B"

\* the train was rendered as stopped on the frame before
StoppedBefore(id) ==
    \E j \in 1..Len(lastFrame.rendered) :
        lastFrame.rendered[j].id = id /\ lastFrame.rendered[j].status = "AT_STOP"

\* C32: a train that is AT_STOP is rendered with a scale in [1.0, 1.15], 1.0 on
\* the frame on which it enters AT_STOP, the dwell anchored to that frame; a
\* train that is not AT_STOP is rendered with the scale 1.0 and has no anchor.
C32_PulseOnlyWhileStopped ==
    lastFrame.valid =>
        \A i \in 1..Len(interpTrain) :
            IF interpTrain[i].status = "AT_STOP"
            THEN /\ interpolatedTrains[i].scale >= 1000
                 /\ interpolatedTrains[i].scale <= 1150
                 /\ animationStates[interpTrain[i].id].stoppedSince > 0
                 /\ ~StoppedBefore(interpTrain[i].id) =>
                        /\ interpolatedTrains[i].scale = 1000
                        /\ animationStates[interpTrain[i].id].stoppedSince = lastFrame.at
            ELSE /\ interpolatedTrains[i].scale = 1000
                 /\ animationStates[interpTrain[i].id].stoppedSince = 0

\* the train stops after frames on which it was rendered as not stopped: the
\* dwell is anchored to this frame
C32_Witness ==
    /\ lastFrame.valid
    /\ interpTrain # <<>>
    /\ interpTrain[1].status = "AT_STOP"
    /\ lastFrame.rendered # <<>>
    /\ lastFrame.rendered[1].status = "INCOMING"
    /\ lastFrame.at > AnimStart
    /\ animationStates[2].stoppedSince = lastFrame.at
    /\ interpolatedTrains[1].scale = 1000

\* on the last frame the one train reported a bearing that differs by more than
\* 1 degree from the one it reported on the frame before and from the one
\* rendered then, while a bearing transition begun earlier was under way
TurnedDuringTransition ==
    /\ lastFrame.valid
    /\ Len(interpTrain) = 1 /\ Len(lastFrame.trains) = 1 /\ Len(lastFrame.rendered) = 1
    /\ interpTrain[1].id = lastFrame.trains[1].id
    /\ interpTrain[1].id \in DOMAIN lastFrame.states
    /\ interpTrain[1].bearing # NoBearing
    /\ lastFrame.trains[1].bearing # NoBearing
    /\ Abs(interpTrain[1].bearing - lastFrame.trains[1].bearing) > 1
    /\ Abs(interpTrain[1].bearing - lastFrame.rendered[1].bearing) > 1
    /\ lastFrame.states[interpTrain[1].id].bearingTransitionStart > 0
    /\ lastFrame.at - lastFrame.states[interpTrain[1].id].bearingTransitionStart
            < BEARING_TRANSITION_DURATION_MS

\* C33: a bearing reported during a bearing transition that differs by more
\* than 1 degree starts a new transition from the bearing rendered last, and
\* that bearing is rendered again on this frame.
C33_TurnRestartsFromRendered ==
    TurnedDuringTransition =>
        /\ animationStates[interpTrain[1].id].bearingTransitionStart = lastFrame.at
        /\ animationStates[interpTrain[1].id].fromBearing = lastFrame.rendered[1].bearing
        /\ interpolatedTrains[1].bearing = lastFrame.rendered[1].bearing

(***************************************************************************)
(* Claims about the nearby stations                                        *)
(***************************************************************************)
\* a call of fetchStationArrivals() in the last step found an entry no older
\* than 30 s iff it sent no request
CachedWithinTtl ==
    \A c \in nearbyLog.calls :
        c.requested <=> ~(c.entry.exists /\ now - c.entry.timestamp <= CACHE_TTL_MS)

\* a failed request leaves the cache as it was
FailureNotCached ==
    \A k \in 1..Len(nearbyLog.response) :
        ~nearbyLog.response[k].ok => cacheRef = nearbyLog.response[k].cache

\* no request for a station is sent within 30 s of an earlier request for the
\* same station that has been answered or is still awaited
OneRequestPerWindow ==
    \A c \in nearbyLog.calls :
        (c.requested /\ c.previous # NoTime) => now - c.previous > CACHE_TTL_MS

\* C34: a call within 30 s of a cached response returns it without a request,
\* a later call fetches; a failed request changes no cache entry; and no
\* station is requested twice within 30 s.
C34_CacheWindow == CachedWithinTtl /\ FailureNotCached /\ OneRequestPerWindow

\* the parts of C34 about the cache entries alone
C34_CacheEntriesOnly == CachedWithinTtl /\ FailureNotCached

\* the load begun in the last step began when its debounce timer was due
DebouncedStart ==
    \A k \in 1..Len(nearbyLog.started) : now >= nearbyLog.started[k].due

\* the response handled in the last step has not replaced the stations of a
\* load by those of a load begun before it
NewestLoadShown ==
    \A k \in 1..Len(nearbyLog.response) :
        nearbyStations.load >= nearbyLog.response[k].shown

\* C35: a load begins only once 500 ms have passed since the last change of
\* the location, and the stations of a load are never replaced by those of a
\* load begun before it.
C35_NewestLoadWins == DebouncedStart /\ NewestLoadShown

(***************************************************************************)
(* Claims about the selection of the trains of a direction                 *)
(***************************************************************************)
\* the arrivals of the call of fnCall that lie in the future and are not
\* too soon to walk to
Catchable ==
    {k \in 1..Len(fnCall[2]) :
        /\ fnCall[2][k].arrivalTime * 1000 > fnCall[4]
        /\ LeaveInMs(fnCall[2][k].arrivalTime, fnCall[3], fnCall[4]) >= IDEAL_WINDOW_MIN_MS}

\* those of them that are ideal
CatchableIdeal ==
    {k \in Catchable :
        LeaveInMs(fnCall[2][k].arrivalTime, fnCall[3], fnCall[4]) <= IDEAL_WINDOW_MAX_MS}

C36_DataOfSelectedStop ==
    (stopStore.selectedStopId # None /\ stopStore.stopData # NoStopData) =>
        stopStore.stopData.stopId = stopStore.selectedStopId

(***************************************************************************)
(* Claims about the trains of the multi-feed cache                         *)
(***************************************************************************)
\* the trains of the cache that the feed of the last update had set and that
\* its new list does not hold
Unreported ==
    {x \in trainCache.trains :
        /\ fnResult[x.id] = fnCall[2]
        /\ \A i \in 1..Len(fnCall[3]) : fnCall[3][i].id # x.id}

\* C37: after updateFromFeed(F, trains) the cache holds no train that an
\* earlier update of F set and that the new list does not hold.
C37_UnreportedTrainsRemoved ==
    fnCall[1] = "updateFromFeed" => Unreported = {}

\* the same for the trains whose line trainBelongsToFeed lists for the feed
C37_ListedLinesRemoved ==
    fnCall[1] = "updateFromFeed" =>
        \A x \in Unreported : ~trainBelongsToFeed(x, fnCall[2])

(***************************************************************************)
(* Claims about the cached snapshot of the stream client                   *)
(***************************************************************************)
\* a step in which the response to fetchCachedTrains is handled although the
\* store holds the trains of a stream event leaves those trains in place
CachedKeepsStreamData ==
    (cachedTrains = "fetching" /\ cachedTrains' = "done" /\ store.lastUpdate # 0) =>
        /\ store'.trains = store.trains
        /\ store'.feedStatuses = store.feedStatuses
        /\ store'.lastUpdate = store.lastUpdate

\* a step after the unmount neither writes to the store nor connects
QuietAfterUnmount ==
    eventSource = "unmounted" => (store' = store /\ eventSource' = "unmounted")

\* the two parts as properties of every step
CachedNeverOverwrites == [][CachedKeepsStreamData]_vars

UnmountSilences == [][QuietAfterUnmount]_vars

\* C38: the response of the cached-snapshot request never replaces trains that
\* a stream event has put into the store, and after the unmount nothing
\* writes to the store or opens a connection.
C38_NoStaleSnapshot == [][CachedKeepsStreamData /\ QuietAfterUnmount]_vars

====
